---- MODULE Spec2Model ----
(***************************************************************************)
(* ZX-diagram evolution engine of sccmu_ui: diagram model (zx_core.py),    *)
(* coherence kernel (coherence.py), free-energy functional                 *)
(* (free_energy.py), variation generators (evolution_engine.py,            *)
(* ensemble.py) and the master-equation step (evolution_engine.py).        *)
(*                                                                         *)
(* Python objects live in a heap: a ZXGraph object is a cell holding three *)
(* references (its node list, edge list and label dict), each of which is  *)
(* a cell of its own, so that aliasing between diagrams is observable.     *)
(* NodeLabel is a frozen dataclass and is modelled as a value.             *)
(*                                                                         *)
(* Floating-point quantities are fixed-point integers: coherence values    *)
(* in units of 1/CohScale, probabilities in units of 1/RhoScale, time      *)
(* steps in units of 1/DtScale.  NaN is a distinguished value.             *)
(***************************************************************************)
EXTENDS Integers, Sequences, FiniteSets, TLC

(***************************************************************************)
(* Fixed-point scales and numeric constants                                *)
(***************************************************************************)
CohScale == 100
RhoScale == 1000
DtScale == 100
NaN == -1000000

\* exp(-0.5/PHI) = 0.7342 in units of 1/CohScale
DecayHalf == 73
\* BETA = 2*pi*PHI = 10.166 in units of 1/1000
BetaMilli == 10166
\* log(1e-10) = -23.026 in units of 1/RhoScale
LnFloor == -23026

Abs(x) == IF x < 0 THEN -x ELSE x
Min2(a, b) == IF a <= b THEN a ELSE b
Max2(a, b) == IF a >= b THEN a ELSE b

RECURSIVE SeqSum(_)
SeqSum(s) == IF s = <<>> THEN 0 ELSE Head(s) + SeqSum(Tail(s))

SetMax(S) == CHOOSE x \in S : \A y \in S : y <= x

RECURSIVE Gcd(_, _)
Gcd(a, b) == IF b = 0 THEN a ELSE Gcd(b, a % b)

Range(s) == {s[i] : i \in 1..Len(s)}

\* the sequence [i \in 1..n |-> f[i]] with every element evaluated once
Strict(f) == SubSeq(f, 1, Cardinality(DOMAIN f))

\* s[:n] of Python for n >= 0
Prefix(s, n) == SubSeq(s, 1, Min2(n, Len(s)))

\* largest r in lo..hi with r^2 <= x, and with r^4 <= x
RECURSIVE FloorRoot2(_, _, _)
FloorRoot2(x, lo, hi) ==
    IF lo >= hi THEN lo
    ELSE LET mid == (lo + hi + 1) \div 2
         IN  IF mid * mid <= x THEN FloorRoot2(x, mid, hi)
             ELSE FloorRoot2(x, lo, mid - 1)

RECURSIVE FloorRoot4(_, _, _)
FloorRoot4(x, lo, hi) ==
    IF lo >= hi THEN lo
    ELSE LET mid == (lo + hi + 1) \div 2
         IN  IF mid * mid * mid * mid <= x THEN FloorRoot4(x, mid, hi)
             ELSE FloorRoot4(x, lo, mid - 1)

(***************************************************************************)
(* zx_core.py                                                              *)
(***************************************************************************)
RECURSIVE is_power_of_2(_)
is_power_of_2(n) == n = 1 \/ (n > 1 /\ n % 2 = 0 /\ is_power_of_2(n \div 2))

\* NodeLabel(kind, phase_numer, phase_denom, node_id); __post_init__ asserts
NodeLabelOk(kind, pn, pd) == kind \in {"Z", "X"} /\ pd > 0 /\ is_power_of_2(pd)

NodeLabel(kind, pn, pd, id) ==
    [kind |-> kind, phase_numer |-> pn, phase_denom |-> pd, node_id |-> id]

\* validate without its loop over the nodes
ValidateEdgesOnly(d) ==
    \A i \in 1..Len(d.edges) :
        /\ d.edges[i][1] # d.edges[i][2]
        /\ d.edges[i][1] \in Range(d.nodes)
        /\ d.edges[i][2] \in Range(d.nodes)

\* ZXGraph.validate: TRUE when it returns True, FALSE when an assertion fires
validate(d) ==
    /\ \A i \in 1..Len(d.edges) :
          /\ d.edges[i][1] # d.edges[i][2]
          /\ d.edges[i][1] \in Range(d.nodes)
          /\ d.edges[i][2] \in Range(d.nodes)
    /\ \A i \in 1..Len(d.nodes) : d.nodes[i] \in DOMAIN d.labels

create_seed_graph ==
    [nodes |-> <<0>>, edges |-> <<>>, labels |-> (0 :> NodeLabel("Z", 0, 1, 0))]

\* the phase brought into range but left unreduced
NormalizePhaseUnreduced(pn, pd) == <<pn % (2 * pd), pd>>

normalize_phase(pn, pd) ==
    LET mod == 2 * pd
        numer_mod == pn % mod
        g == Gcd(numer_mod, pd)
    IN  IF g > 0 THEN <<numer_mod \div g, pd \div g>> ELSE <<numer_mod, pd>>

add_phases(n1, d1, n2, d2) ==
    LET common_denom == Max2(d1, d2)
        numer1 == n1 * (common_denom \div d1)
        numer2 == n2 * (common_denom \div d2)
    IN  normalize_phase(numer1 + numer2, common_denom)

\* the value of dict.get on a missing key
NoneLabel == [kind |-> "None", phase_numer |-> 0, phase_denom |-> 0, node_id |-> -1]

LabelGet(d, node) == IF node \in DOMAIN d.labels THEN d.labels[node] ELSE NoneLabel

graphs_equal(G1, G2) ==
    IF Len(G1.nodes) # Len(G2.nodes) THEN FALSE
    ELSE IF Len(G1.edges) # Len(G2.edges) THEN FALSE
    ELSE IF \E i \in 1..Len(G1.nodes) :
               \/ G1.nodes[i] \notin Range(G2.nodes)
               \/ LabelGet(G1, G1.nodes[i]) # LabelGet(G2, G1.nodes[i])
         THEN FALSE
    ELSE Range(G1.edges) = Range(G2.edges)

(***************************************************************************)
(* coherence.py                                                            *)
(***************************************************************************)
Raised == -2000000

CountKind(d, k) == Cardinality({n \in DOMAIN d.labels : d.labels[n].kind = k})

\* np.histogram(phases, bins=16, range=(0, 2*pi)): values outside the range
\* are dropped, the right edge belongs to the last bin
PhaseInRange(l) == l.phase_numer >= 0 /\ l.phase_numer <= 2 * l.phase_denom

PhaseBin(l) ==
    IF l.phase_numer = 2 * l.phase_denom THEN 15
    ELSE (8 * l.phase_numer) \div l.phase_denom

\* the histogram as the bag of the bins of the in-range labels: one
\* <<key, bin>> pair per counted label
PhaseHist(d) ==
    {<<n, PhaseBin(d.labels[n])>> : n \in {m \in DOMAIN d.labels : PhaseInRange(d.labels[m])}}

\* np.dot(hist1, hist2) = sum over the bins of count1 * count2
HistDot(h1, h2) == Cardinality({p \in h1 \X h2 : p[1][2] = p[2][2]})

\* cosine similarity of the two histograms; with density=True a histogram
\* without any in-range value is all NaN, its norm is NaN and the test
\* norm > 0 is false
Cosine(dot, n1sq, n2sq) ==
    IF n1sq > 0 /\ n2sq > 0
    THEN FloorRoot2((dot * dot * CohScale * CohScale) \div (n1sq * n2sq), 0, CohScale)
    ELSE 0

HistCosine(h1, h2) == Cosine(HistDot(h1, h2), HistDot(h1, h1), HistDot(h2, h2))

PhaseOverlap(D1, D2) ==
    IF DOMAIN D1.labels # {} /\ DOMAIN D2.labels # {}
    THEN HistCosine(PhaseHist(D1), PhaseHist(D2))
    ELSE IF DOMAIN D1.labels = {} /\ DOMAIN D2.labels = {} THEN CohScale ELSE 0

NodeSimOf(n1, n2) ==
    IF n1 = 0 /\ n2 = 0 THEN CohScale
    ELSE IF n1 = 0 \/ n2 = 0 THEN 0
    ELSE (Min2(n1, n2) * CohScale) \div Max2(n1, n2)

NodeSim(D1, D2) == NodeSimOf(Len(D1.nodes), Len(D2.nodes))

EdgeSimOf(e1, e2) ==
    CohScale - (Abs(e1 - e2) * CohScale) \div Max2(Max2(e1, e2), 1)

EdgeSim(D1, D2) == EdgeSimOf(Len(D1.edges), Len(D2.edges))

TypeSimOf(z1, n1, z2, n2) ==
    IF n1 > 0 /\ n2 > 0
    THEN CohScale - Abs((z1 * CohScale) \div n1 - (z2 * CohScale) \div n2)
    ELSE CohScale

TypeSim(D1, D2) ==
    TypeSimOf(CountKind(D1, "Z"), Len(D1.nodes), CountKind(D2, "Z"), Len(D2.nodes))

\* x ** 0.25 for the product x of the four signals; a negative numpy float
\* raised to 0.25 is NaN
GeometricMean(prod) == IF prod < 0 THEN NaN ELSE FloorRoot4(prod, 0, CohScale)

compute_structural_overlap(D1, D2) ==
    GeometricMean(NodeSim(D1, D2) * EdgeSim(D1, D2) * TypeSim(D1, D2)
                  * PhaseOverlap(D1, D2))

\* abs(l1.phase_radians - l2.phase_radians) > 0.1, with pi = 3.1416
PhaseFar(l1, l2) ==
    Abs(l1.phase_numer * l2.phase_denom - l2.phase_numer * l1.phase_denom) * 31416
        > 1000 * l1.phase_denom * l2.phase_denom

\* twice what one pair of labels adds to label_diff
LabelPenalty2(l1, l2) ==
    IF l1 # NoneLabel /\ l2 # NoneLabel
    THEN (IF l1.kind # l2.kind THEN 2 ELSE 0) + (IF PhaseFar(l1, l2) THEN 1 ELSE 0)
    ELSE 0

\* for node in D1.nodes: if node in D2.nodes: ...
RECURSIVE LabelDiff2(_, _, _)
LabelDiff2(D1, D2, i) ==
    IF i > Len(D1.nodes) THEN 0
    ELSE (IF D1.nodes[i] \in Range(D2.nodes)
          THEN LabelPenalty2(LabelGet(D1, D1.nodes[i]), LabelGet(D2, D1.nodes[i]))
          ELSE 0)
         + LabelDiff2(D1, D2, i + 1)

\* twice the edit distance (the distance is a multiple of 0.5)
compute_edit_distance(D1, D2) ==
    2 * Abs(Len(D1.nodes) - Len(D2.nodes))
    + 2 * Abs(Len(D1.edges) - Len(D2.edges))
    + (IF Len(D1.nodes) = Len(D2.nodes) THEN LabelDiff2(D1, D2, 1) ELSE 0)

\* exp(-dist / PHI) for dist = dist2 / 2
RECURSIVE Decay(_)
Decay(dist2) ==
    IF dist2 <= 0 THEN CohScale ELSE (Decay(dist2 - 1) * DecayHalf) \div CohScale

\* np.clip(x, 0.0, 1.0); NaN stays NaN
Clip01(x) == IF x = NaN THEN NaN ELSE Max2(0, Min2(CohScale, x))

\* np.clip(overlap * decay, 0.0, 1.0)
Combined(overlap, decay) ==
    IF overlap = NaN THEN NaN ELSE Clip01((overlap * decay) \div CohScale)

coherence_between_diagrams(D1, D2) ==
    IF ~validate(D1) \/ ~validate(D2) THEN Raised
    ELSE Combined(compute_structural_overlap(D1, D2),
                  Decay(compute_edit_distance(D1, D2)))

compute_coherence_matrix(diagrams) ==
    Strict([i \in 1..Len(diagrams) |->
        Strict([j \in 1..Len(diagrams) |->
                   coherence_between_diagrams(diagrams[i], diagrams[j])])])

(***************************************************************************)
(* Heap of Python objects.  A generator state G carries the heap h, the    *)
(* next free reference nx, the list of variations built so far (out), the  *)
(* diagram under construction (var), the number of values drawn from the   *)
(* random source (t) and whether a KeyError was raised.                    *)
(***************************************************************************)
Fresh(h) == IF DOMAIN h = {} THEN 1 ELSE SetMax(DOMAIN h) + 1

\* the diagram value a ZXGraph reference denotes
Val(h, g) ==
    [nodes |-> h[h[g].nodes], edges |-> h[h[g].edges], labels |-> h[h[g].labels]]

\* ZXGraph.copy handing the label dict of the original to the copy
CopyCellsShared(h, g, nx) == [nodes |-> nx, edges |-> nx + 1, labels |-> h[g].labels]

\* the three containers of the ZXGraph built by ZXGraph.copy: copy.copy of
\* the node list and of the edge list, copy.deepcopy of the label dict
CopyCells(h, g, nx) == [nodes |-> nx, edges |-> nx + 1, labels |-> nx + 2]

ZXGraph_copy(G, g) ==
    LET cell == CopyCells(G.h, g, G.nx)
    IN  [G EXCEPT !.h = (G.nx :> G.h[G.h[g].nodes])
                        @@ ((G.nx + 1) :> G.h[G.h[g].edges])
                        @@ ((G.nx + 2) :> G.h[G.h[g].labels])
                        @@ ((G.nx + 3) :> cell) @@ G.h,
                  !.nx = G.nx + 4,
                  !.var = G.nx + 3]

VarNodes(G) == G.h[G.h[G.var].nodes]
VarEdges(G) == G.h[G.h[G.var].edges]
VarLabels(G) == G.h[G.h[G.var].labels]

NodesAppend(G, x) == [G EXCEPT !.h[G.h[G.var].nodes] = Append(@, x)]
EdgesAppend(G, e) == [G EXCEPT !.h[G.h[G.var].edges] = Append(@, e)]
LabelsSet(G, k, l) == [G EXCEPT !.h[G.h[G.var].labels] = (k :> l) @@ @]
LabelsDel(G, k) ==
    [G EXCEPT !.h[G.h[G.var].labels] = [n \in (DOMAIN @) \ {k} |-> @[n]]]
Emit(G) == [G EXCEPT !.out = Append(@, G.var)]

\* list.remove(x): drops the first occurrence
RECURSIVE RemoveFirst(_, _)
RemoveFirst(s, x) ==
    IF s = <<>> THEN <<>>
    ELSE IF Head(s) = x THEN Tail(s)
    ELSE <<Head(s)>> \o RemoveFirst(Tail(s), x)

NodesRemove(G, x) == [G EXCEPT !.h[G.h[G.var].nodes] = RemoveFirst(@, x)]
EdgesRemove(G, e) == [G EXCEPT !.h[G.h[G.var].edges] = RemoveFirst(@, e)]

\* var.edges = [...]: a new list object bound to the field
EdgesRebind(G, es) ==
    [G EXCEPT !.h = (G.nx :> es) @@ [G.h EXCEPT ![G.var].edges = G.nx],
              !.nx = G.nx + 1]

\* the slice taken one element too long
PySliceOneMore(s, k) == SubSeq(s, 1, Min2(Max2(k, 0) + 1, Len(s)))

\* s[:k] of Python, k of either sign
PySlice(s, k) == IF k >= 0 THEN Prefix(s, k) ELSE SubSeq(s, 1, Max2(0, Len(s) + k))

\* the random source: a finite tape read cyclically
Draw(G, tape, off) == tape[((G.t + off) % Len(tape)) + 1]
Skip(G, k) == [G EXCEPT !.t = @ + k]
KindChoice(v) == IF v % 2 = 0 THEN "Z" ELSE "X"

GenStart(h) ==
    [h |-> h, nx |-> Fresh(h), out |-> <<>>, var |-> 0, t |-> 0, raised |-> FALSE]

\* the largest identifier in use, taken again
NewIdStale(G) == IF VarNodes(G) # <<>> THEN SetMax(Range(VarNodes(G))) ELSE 0

NewId(G) == IF VarNodes(G) # <<>> THEN SetMax(Range(VarNodes(G))) + 1 ELSE 0

\* the new edge written as (new_id, new_id)
AppendRandomNodeSelfLoop(G, source, tape) ==
    LET new_id == NewId(G)
        G1 == EdgesAppend(NodesAppend(G, new_id), <<new_id, new_id>>)
        kind == KindChoice(Draw(G, tape, 0))
        phase_n == Draw(G, tape, 1) % 8
    IN  Skip(LabelsSet(G1, new_id, NodeLabel(kind, phase_n, 8, new_id)), 2)

\* two nodes appended where one is meant
AppendTwoRandomNodes(G, source, tape) ==
    LET new_id == NewId(G)
        G1 == EdgesAppend(NodesAppend(NodesAppend(G, new_id), new_id + 1),
                          <<source, new_id>>)
        kind == KindChoice(Draw(G, tape, 0))
        phase_n == Draw(G, tape, 1) % 8
    IN  Skip(LabelsSet(LabelsSet(G1, new_id, NodeLabel(kind, phase_n, 8, new_id)),
                       new_id + 1, NodeLabel(kind, phase_n, 8, new_id + 1)), 2)

\* append a node with a random label, attached to source
AppendRandomNode(G, source, tape) ==
    LET new_id == NewId(G)
        G1 == EdgesAppend(NodesAppend(G, new_id), <<source, new_id>>)
        kind == KindChoice(Draw(G, tape, 0))
        phase_n == Draw(G, tape, 1) % 8
    IN  Skip(LabelsSet(G1, new_id, NodeLabel(kind, phase_n, 8, new_id)), 2)

FlipLabel(G, node) ==
    IF node \notin DOMAIN VarLabels(G) THEN [G EXCEPT !.raised = TRUE]
    ELSE LET old == VarLabels(G)[node]
             new_kind == IF old.kind = "Z" THEN "X" ELSE "Z"
         IN  LabelsSet(G, node,
                       NodeLabel(new_kind, old.phase_numer, old.phase_denom, old.node_id))

ShiftPhase(G, node, delta_n) ==
    IF node \notin DOMAIN VarLabels(G) THEN [G EXCEPT !.raised = TRUE]
    ELSE LET old == VarLabels(G)[node]
             np == add_phases(old.phase_numer, old.phase_denom, delta_n, 8)
         IN  LabelsSet(G, node, NodeLabel(old.kind, np[1], np[2], old.node_id))

(***************************************************************************)
(* evolution_engine.py: ZXEvolutionEngine.generate_variations              *)
(***************************************************************************)
NodeCeiling == 15

\* the node list of the source diagram
SrcNodes(G, graph) == G.h[G.h[graph].nodes]
SrcEdges(G, graph) == G.h[G.h[graph].edges]

\* variations.append(var) unless the operation raised
EmitUnlessRaised(G) == IF G.raised THEN G ELSE Emit(G)

\* return variations[:max_variations]
Truncated(G, max_variations) == [G EXCEPT !.out = PySlice(@, max_variations)]

\* variations = [graph.copy()]
Original(h, graph) == Emit(ZXGraph_copy(GenStart(h), graph))

RECURSIVE AddNodeLoop(_, _, _, _)
AddNodeLoop(G, graph, sources, tape) ==
    IF sources = <<>> \/ G.raised THEN G
    ELSE AddNodeLoop(Emit(AppendRandomNode(ZXGraph_copy(G, graph), Head(sources), tape)),
                     graph, Tail(sources), tape)

\* the add-node operation without the test of the node count
AddNodeAlways(G, graph, max_variations, tape) ==
    IF Len(G.out) < max_variations
    THEN AddNodeLoop(G, graph, Prefix(SrcNodes(G, graph), 3), tape)
    ELSE G

\* 1. add node
AddNodeOp(G, graph, max_variations, tape) ==
    IF Len(SrcNodes(G, graph)) < NodeCeiling /\ Len(G.out) < max_variations
    THEN AddNodeLoop(G, graph, Prefix(SrcNodes(G, graph), 3), tape)
    ELSE G

RECURSIVE FlipLoop(_, _, _, _)
FlipLoop(G, graph, sources, max_variations) ==
    IF sources = <<>> \/ G.raised \/ Len(G.out) >= max_variations THEN G
    ELSE FlipLoop(EmitUnlessRaised(FlipLabel(ZXGraph_copy(G, graph), Head(sources))),
                  graph, Tail(sources), max_variations)

\* 2. flip spider type
FlipOp(G, graph, max_variations) ==
    FlipLoop(G, graph, Prefix(SrcNodes(G, graph), 3), max_variations)

RECURSIVE PhaseLoop(_, _, _, _)
PhaseLoop(G, graph, sources, max_variations) ==
    IF sources = <<>> \/ G.raised \/ Len(G.out) >= max_variations THEN G
    ELSE PhaseLoop(EmitUnlessRaised(ShiftPhase(ZXGraph_copy(G, graph), Head(sources), 1)),
                   graph, Tail(sources), max_variations)

\* 3. change phase by pi/8
PhaseOp(G, graph, max_variations) ==
    PhaseLoop(G, graph, Prefix(SrcNodes(G, graph), 2), max_variations)

generate_variations(h, graph, max_variations, tape) ==
    Truncated(
        PhaseOp(
            FlipOp(
                AddNodeOp(Original(h, graph), graph, max_variations, tape),
                graph, max_variations),
            graph, max_variations),
        max_variations)

(***************************************************************************)
(* ensemble.py: generate_variations_improved.  The exploration factor is   *)
(* given in tenths (ef10 = 10 * exploration_factor).                       *)
(***************************************************************************)
MaxNodesFor(ef10) == (NodeCeiling * ef10) \div 10
NumSimultaneous(ef10) == Max2(1, (2 * ef10) \div 10)

\* 1. add single node
RECURSIVE AddSingleLoop(_, _, _, _, _)
AddSingleLoop(G, graph, sources, max_variations, tape) ==
    IF sources = <<>> \/ G.raised \/ Len(G.out) >= max_variations THEN G
    ELSE AddSingleLoop(
            Emit(AppendRandomNode(ZXGraph_copy(G, graph), Head(sources), tape)),
            graph, Tail(sources), max_variations, tape)

\* 2. add a chain of nodes
RECURSIVE ChainNodes(_, _, _, _)
ChainNodes(G, prev_id, num_to_add, tape) ==
    IF num_to_add <= 0 THEN G
    ELSE LET new_id == SetMax(Range(VarNodes(G))) + 1
         IN  ChainNodes(AppendRandomNode(G, prev_id, tape), new_id, num_to_add - 1, tape)

RECURSIVE AddChainLoop(_, _, _, _, _, _)
AddChainLoop(G, graph, sources, max_variations, max_nodes, tape) ==
    IF sources = <<>> \/ G.raised \/ Len(G.out) >= max_variations THEN G
    ELSE LET G1 == ZXGraph_copy(G, graph)
             num_to_add == Min2(3, max_nodes - Len(VarNodes(G1)))
         IN  AddChainLoop(Emit(ChainNodes(G1, Head(sources), num_to_add, tape)),
                          graph, Tail(sources), max_variations, max_nodes, tape)

\* 3. remove a node of degree <= 1
Degree(es, node) ==
    Cardinality({i \in 1..Len(es) : es[i][1] = node \/ es[i][2] = node})

WithoutNode(es, node) ==
    LET keep == {i \in 1..Len(es) : es[i][1] # node /\ es[i][2] # node}
        RECURSIVE Pick(_)
        Pick(i) == IF i > Len(es) THEN <<>>
                   ELSE (IF i \in keep THEN <<es[i]>> ELSE <<>>) \o Pick(i + 1)
    IN  Pick(1)

\* var.edges = [(u, v) for u, v in var.edges if u != node and v != node]
EdgesFilter(G, node) == EdgesRebind(G, WithoutNode(VarEdges(G), node))

\* del var.labels[node]; raises KeyError when the label is missing
LabelsDelOrRaise(G, node) ==
    IF node \notin DOMAIN VarLabels(G) THEN [G EXCEPT !.raised = TRUE]
    ELSE LabelsDel(G, node)

\* the edges are filtered and the variation appended unless del raised
FinishRemoval(G, node) == IF G.raised THEN G ELSE Emit(EdgesFilter(G, node))

RemoveNodeVar(G, graph, node) ==
    FinishRemoval(LabelsDelOrRaise(NodesRemove(ZXGraph_copy(G, graph), node), node), node)

RECURSIVE RemoveNodeLoop(_, _, _, _)
RemoveNodeLoop(G, graph, sources, max_variations) ==
    IF sources = <<>> \/ G.raised \/ Len(G.out) >= max_variations THEN G
    ELSE RemoveNodeLoop(IF Degree(SrcEdges(G, graph), Head(sources)) <= 1
                        THEN RemoveNodeVar(G, graph, Head(sources))
                        ELSE G,
                        graph, Tail(sources), max_variations)

\* 4. add an edge; i is the 0-based position of u in graph.nodes
RECURSIVE FirstFreePartner(_, _, _)
FirstFreePartner(es, u, cands) ==
    IF cands = <<>> THEN <<>>
    ELSE IF <<u, Head(cands)>> \notin Range(es) /\ <<Head(cands), u>> \notin Range(es)
         THEN <<Head(cands)>>
    ELSE FirstFreePartner(es, u, Tail(cands))

\* the variation with the edge (u, v), v the first free partner if any
AddEdgeVar(G, graph, u, v) ==
    IF v = <<>> THEN G ELSE Emit(EdgesAppend(ZXGraph_copy(G, graph), <<u, v[1]>>))

RECURSIVE AddEdgeLoop(_, _, _, _)
AddEdgeLoop(G, graph, i, max_variations) ==
    IF i >= Min2(4, Len(SrcNodes(G, graph))) \/ G.raised \/ Len(G.out) >= max_variations
    THEN G
    ELSE AddEdgeLoop(
            AddEdgeVar(G, graph, SrcNodes(G, graph)[i + 1],
                       FirstFreePartner(SrcEdges(G, graph), SrcNodes(G, graph)[i + 1],
                                        SubSeq(SrcNodes(G, graph), i + 2,
                                               Min2(i + 4, Len(SrcNodes(G, graph)))))),
            graph, i + 1, max_variations)

\* 5. remove an edge
RECURSIVE RemoveEdgeLoop(_, _, _, _)
RemoveEdgeLoop(G, graph, es, max_variations) ==
    IF es = <<>> \/ G.raised \/ Len(G.out) >= max_variations THEN G
    ELSE RemoveEdgeLoop(Emit(EdgesRemove(ZXGraph_copy(G, graph), Head(es))),
                        graph, Tail(es), max_variations)

\* 7. change phase by a random increment from [-2, -1, 1, 2]
DeltaChoice(v) == <<-2, -1, 1, 2>>[(v % 4) + 1]

RandomShift(G, node, tape) ==
    Skip(ShiftPhase(G, node, DeltaChoice(Draw(G, tape, 0))), 1)

RECURSIVE ChangePhaseLoop(_, _, _, _, _)
ChangePhaseLoop(G, graph, sources, max_variations, tape) ==
    IF sources = <<>> \/ G.raised \/ Len(G.out) >= max_variations THEN G
    ELSE ChangePhaseLoop(
            EmitUnlessRaised(RandomShift(ZXGraph_copy(G, graph), Head(sources), tape)),
            graph, Tail(sources), max_variations, tape)

\* 8. several simultaneous changes to one copy
RandomNode(G, v) == VarNodes(G)[(v % Len(VarNodes(G))) + 1]

SimultaneousChange(G, max_nodes, tape) ==
    LET operation == <<"add_node", "flip_type", "change_phase">>[(Draw(G, tape, 0) % 3) + 1]
        G0 == Skip(G, 1)
    IN  IF operation = "add_node" /\ Len(VarNodes(G0)) < max_nodes
        THEN IF VarNodes(G0) # <<>>
             THEN AppendRandomNode(Skip(G0, 1), RandomNode(G0, Draw(G0, tape, 0)), tape)
             ELSE AppendRandomNode(G0, 0, tape)
        ELSE IF operation = "flip_type" /\ VarNodes(G0) # <<>>
        THEN FlipLabel(Skip(G0, 1), RandomNode(G0, Draw(G0, tape, 0)))
        ELSE IF operation = "change_phase" /\ VarNodes(G0) # <<>>
        THEN ShiftPhase(Skip(G0, 2), RandomNode(G0, Draw(G0, tape, 0)),
                        (Draw(G0, tape, 1) % 7) - 3)
        ELSE G0

RECURSIVE SimultaneousChanges(_, _, _, _)
SimultaneousChanges(G, count, max_nodes, tape) ==
    IF count <= 0 \/ G.raised THEN G
    ELSE SimultaneousChanges(SimultaneousChange(G, max_nodes, tape), count - 1,
                             max_nodes, tape)

RECURSIVE MultiChangeLoop(_, _, _, _, _, _)
MultiChangeLoop(G, graph, rounds, max_variations, ef10, tape) ==
    IF rounds <= 0 \/ G.raised \/ Len(G.out) >= max_variations THEN G
    ELSE MultiChangeLoop(
            EmitUnlessRaised(SimultaneousChanges(ZXGraph_copy(G, graph),
                                                 NumSimultaneous(ef10),
                                                 MaxNodesFor(ef10), tape)),
            graph, rounds - 1, max_variations, ef10, tape)

AddSingleOp(G, graph, max_variations, ef10, tape) ==
    IF Len(SrcNodes(G, graph)) < MaxNodesFor(ef10)
    THEN AddSingleLoop(G, graph, Prefix(SrcNodes(G, graph), 5), max_variations, tape)
    ELSE G

AddChainOp(G, graph, max_variations, ef10, tape) ==
    IF ef10 > 10 /\ Len(SrcNodes(G, graph)) < MaxNodesFor(ef10) - 2
    THEN AddChainLoop(G, graph, Prefix(SrcNodes(G, graph), 3), max_variations,
                      MaxNodesFor(ef10), tape)
    ELSE G

RemoveNodeOp(G, graph, max_variations) ==
    IF Len(SrcNodes(G, graph)) > 1
    THEN RemoveNodeLoop(G, graph, Prefix(SrcNodes(G, graph), 3), max_variations)
    ELSE G

\* len(graph.edges) < len(graph.nodes) * (len(graph.nodes) - 1) / 2 * 0.5
Sparse(n, e) == 2 * e < (n * (n - 1)) \div 2

AddEdgeOp(G, graph, max_variations) ==
    IF Sparse(Len(SrcNodes(G, graph)), Len(SrcEdges(G, graph)))
    THEN AddEdgeLoop(G, graph, 0, max_variations)
    ELSE G

RemoveEdgeOp(G, graph, max_variations) ==
    IF Len(SrcEdges(G, graph)) > 0
    THEN RemoveEdgeLoop(G, graph, Prefix(SrcEdges(G, graph), 3), max_variations)
    ELSE G

FlipTypeOp(G, graph, max_variations) ==
    FlipLoop(G, graph, Prefix(SrcNodes(G, graph), 5), max_variations)

ChangePhaseOp(G, graph, max_variations, tape) ==
    ChangePhaseLoop(G, graph, Prefix(SrcNodes(G, graph), 5), max_variations, tape)

\* range(min(5, int(max_variations * 0.1)))
Rounds(max_variations) ==
    Min2(5, IF max_variations >= 0 THEN max_variations \div 10 ELSE 0)

MultiChangeOp(G, graph, max_variations, ef10, tape) ==
    IF ef10 > 8
    THEN MultiChangeLoop(G, graph, Rounds(max_variations), max_variations, ef10, tape)
    ELSE G

generate_variations_improved(h, graph, max_variations, ef10, tape) ==
    Truncated(
     MultiChangeOp(
      ChangePhaseOp(
       FlipTypeOp(
        RemoveEdgeOp(
         AddEdgeOp(
          RemoveNodeOp(
           AddChainOp(
            AddSingleOp(Original(h, graph), graph, max_variations, ef10, tape),
            graph, max_variations, ef10, tape),
           graph, max_variations),
          graph, max_variations),
         graph, max_variations),
        graph, max_variations),
       graph, max_variations, tape),
      graph, max_variations, ef10, tape),
     max_variations)

(***************************************************************************)
(* free_energy.py                                                          *)
(***************************************************************************)
RECURSIVE FloorLog2(_)
FloorLog2(x) == IF x <= 1 THEN 0 ELSE 1 + FloorLog2(x \div 2)

RECURSIVE Pow2(_)
Pow2(k) == IF k <= 0 THEN 1 ELSE 2 * Pow2(k - 1)

\* 1.0 of the mantissa whose base-2 logarithm is taken
Log2One == 16384

\* x / 2^k, in units of 1/Log2One
Mantissa(x, k) == IF k <= 14 THEN x * Pow2(14 - k) ELSE x \div Pow2(k - 14)

RECURSIVE Log2Frac(_, _)
RECURSIVE Log2Squared(_, _)
\* the first bits binary digits of log2(m / Log2One) for a mantissa in [1, 2):
\* a digit is 1 when the square of the mantissa reaches 2
Log2Frac(m, bits) ==
    IF bits = 0 THEN 0 ELSE Log2Squared((m * m) \div Log2One, bits)

Log2Squared(sq, bits) ==
    IF sq >= 2 * Log2One THEN Pow2(bits - 1) + Log2Frac(sq \div 2, bits - 1)
    ELSE Log2Frac(sq, bits - 1)

\* (k + frac / Log2One) * ln 2, in units of 1/100000 (ln 2 = 0.69315)
LnParts(k, frac) == k * 69315 + (frac * 69315) \div Log2One

\* natural logarithm of an integer x >= 1, in units of 1/100000
LnInt(x) == LnParts(FloorLog2(x), Log2Frac(Mantissa(x, FloorLog2(x)), 14))

\* the floor log(1e-10) taken for every entry up to 0.05
LnFineClipped(x) == IF x <= 50 THEN LnFloor * 100 ELSE LnInt(x) - LnInt(RhoScale)

\* np.log(np.maximum(rho, 1e-10)) for rho in units of 1/RhoScale, in units
\* of 1/100000
LnFine(x) == IF x <= 0 THEN LnFloor * 100 ELSE LnInt(x) - LnInt(RhoScale)

\* the same in units of 1/1000
LnSafe(x) == LnFine(x) \div 100

HasNaN(rho) == \E i \in 1..Len(rho) : rho[i] = NaN

\* abs(np.sum(rho) - 1.0) < 1e-6; the tolerance, ten orders of magnitude
\* above the rounding unit of the floats, is one rounding unit per entry
SumsToOne(rho) == ~HasNaN(rho) /\ Abs(SeqSum(rho) - RhoScale) <= Len(rho)

RECURSIVE DotRow(_, _, _)
DotRow(row, rho, j) ==
    IF j > Len(rho) THEN 0 ELSE row[j] * rho[j] + DotRow(row, rho, j + 1)

\* L = sum_ij C(D_i, D_j) rho_i rho_j, in units of 1/1000
QuadraticForm(C, rho) ==
    IF \E i \in 1..Len(rho), j \in 1..Len(rho) : C[i][j] = Raised THEN Raised
    ELSE SeqSum(Strict([i \in 1..Len(rho) |-> rho[i] * DotRow(C[i], rho, 1)]))
         \div (CohScale * RhoScale)

compute_coherence_functional(diagrams, rho) ==
    IF Len(diagrams) # Len(rho) \/ ~SumsToOne(rho) THEN Raised
    ELSE QuadraticForm(compute_coherence_matrix(diagrams), rho)

\* S = -sum_i rho_i log(max(rho_i, 1e-10)), in units of 1/1000
compute_entropy(rho) ==
    IF ~SumsToOne(rho) THEN Raised
    ELSE (-SeqSum(Strict([i \in 1..Len(rho) |-> rho[i] * LnFine(rho[i])])))
         \div (RhoScale * 100)

\* F = L - S / beta
FreeEnergyOf(L, S) ==
    IF L = Raised \/ S = Raised THEN Raised ELSE L - (S * 1000) \div BetaMilli

compute_free_energy(diagrams, rho) ==
    FreeEnergyOf(compute_coherence_functional(diagrams, rho), compute_entropy(rho))

\* delta_F[i] = -2 (C rho)[i] + (1/beta) (log(rho_i) + 1), in units of 1/1000
compute_functional_derivative(rho, C) ==
    Strict([i \in 1..Len(rho) |->
        -2 * (DotRow(C[i], rho, 1) \div CohScale)
        + ((LnSafe(rho[i]) + 1000) * 1000) \div BetaMilli])

(***************************************************************************)
(* free_energy.py: verify_fixed_point.  Eigenvalue ratios are in units of  *)
(* 1/1000, the normalized residual in units of 1e-4.                       *)
(***************************************************************************)
\* C_rho = C_matrix @ rho, in units of 1/RhoScale
CRho(C, rho) == Strict([i \in 1..Len(rho) |-> DotRow(C[i], rho, 1) \div CohScale])

\* the ratio standing for a quotient by the floor 1e-10 of rho_safe
RatioCap == 1000000

\* C_rho[i] / max(rho[i], 1e-10)
Ratio(cr, r) ==
    IF r > 0 THEN (cr * 1000) \div r ELSE IF cr = 0 THEN 0 ELSE RatioCap

LambdaRatios(cr, rho) == Strict([i \in 1..Len(rho) |-> Ratio(cr[i], rho[i])])

\* np.mean
Mean(s) == SeqSum(s) \div Len(s)

\* (x - m)^2 with the deviation capped at 1.0, far above every threshold it
\* is compared with
SqDev(x, m) == Min2(Abs(x - m), 1000) * Min2(Abs(x - m), 1000)

\* np.std(s)^2
Variance(s, m) == SeqSum(Strict([i \in 1..Len(s) |-> SqDev(s[i], m)])) \div Len(s)

\* ||C_rho - lambda_max * rho||^2
ResidualSq(cr, rho, lambda_max) ==
    SeqSum(Strict([i \in 1..Len(rho) |->
        SqDev(cr[i], ((lambda_max \div 10) * rho[i]) \div 100)]))

\* ||C_rho||^2
NormSq(cr) == SeqSum(Strict([i \in 1..Len(cr) |-> cr[i] * cr[i]]))

\* residual / (||C_rho|| + 1e-10)
NormalizedResidual(rs, cs) ==
    IF rs = 0 THEN 0
    ELSE (FloorRoot2(rs * 100, 0, 40000) * 1000) \div Max2(1, FloorRoot2(cs, 0, 40000))

\* PHI ** k for k in range(-5, 6)
PhiPowers == <<90, 146, 236, 382, 618, 1000, 1618, 2618, 4236, 6854, 11090>>

\* min(phi_powers, key=lambda p: abs(p - lambda_max)): the first minimum
ClosestPhiPower(lambda_max) ==
    PhiPowers[CHOOSE i \in 1..Len(PhiPowers) :
        /\ \A j \in 1..Len(PhiPowers) :
              Abs(PhiPowers[i] - lambda_max) <= Abs(PhiPowers[j] - lambda_max)
        /\ \A j \in 1..(i - 1) :
              Abs(PhiPowers[j] - lambda_max) > Abs(PhiPowers[i] - lambda_max)]

\* phi_power_error < 0.05
IsPhiEigenvalue(lambda_max, closest) ==
    (Min2(Abs(lambda_max - closest), 100000) * 1000) \div closest < 50

FixedPointRecord(lambda_max, variance, residual) ==
    [is_fixed_point |-> variance < 100 /\ residual < 1,
     lambda_max |-> lambda_max,
     normalized_residual |-> residual,
     is_phi_eigenvalue |-> IsPhiEigenvalue(lambda_max, ClosestPhiPower(lambda_max))]

FixedPointOfRatios(cr, rho, ratios, lambda_max) ==
    FixedPointRecord(lambda_max, Variance(ratios, lambda_max),
                     NormalizedResidual(ResidualSq(cr, rho, lambda_max), NormSq(cr)))

FixedPointOfCRho(cr, rho, ratios) == FixedPointOfRatios(cr, rho, ratios, Mean(ratios))

\* a NaN in rho or in the coherence matrix makes every comparison false
NaNFixedPoint ==
    [is_fixed_point |-> FALSE, lambda_max |-> NaN, normalized_residual |-> NaN,
     is_phi_eigenvalue |-> FALSE]

\* verify_fixed_point(diagrams, rho, C_matrix); C_matrix None is <<>>
FixedPointOfMatrix(C, rho) ==
    IF HasNaN(rho) \/ (\E i \in 1..Len(C), j \in 1..Len(C) : C[i][j] = NaN)
    THEN NaNFixedPoint
    ELSE FixedPointOfCRho(CRho(C, rho), rho, LambdaRatios(CRho(C, rho), rho))

verify_fixed_point(diagrams, rho, C_matrix) ==
    FixedPointOfMatrix(IF C_matrix = <<>> THEN compute_coherence_matrix(diagrams)
                       ELSE C_matrix, rho)

(***************************************************************************)
(* evolution_engine.py: the state of a ZXEvolutionEngine and evolve_step   *)
(***************************************************************************)
VARIABLES heap, mode_graph, ensemble, ensemble_rho, C_matrix, time,
          free_energy_history, coherence_history, mode_probability_history,
          ensemble_size, result, gen, coh, call

engine_vars == <<mode_graph, ensemble, ensemble_rho, C_matrix, time,
                 free_energy_history, coherence_history,
                 mode_probability_history, ensemble_size>>
vars == <<heap, mode_graph, ensemble, ensemble_rho, C_matrix, time,
          free_energy_history, coherence_history, mode_probability_history,
          ensemble_size, result, gen, coh, call>>

\* bounds of the exploration
MaxSteps == 2
MaxDt == 10000
TapeLen == 2
MaxTape == 2

EnsembleSizes == {1, 2, 3, 5}
DtChoices == {1, 100, MaxDt}
Tapes == [1..TapeLen -> 0..MaxTape]

NoResult == [status |-> "none", mode_graph |-> 0]
RaisedResult == [status |-> "raised", mode_graph |-> 0]

\* the cells reachable from a set of ZXGraph references
Live(h, roots) ==
    roots \cup UNION {{h[g].nodes, h[g].edges, h[g].labels} : g \in roots}

Collect(h, roots) == [r \in Live(h, roots \ {0}) |-> h[r]]

\* np.argmax: the first index of the maximum
ArgMax(s) ==
    CHOOSE i \in 1..Len(s) :
        /\ \A j \in 1..Len(s) : s[j] <= s[i]
        /\ \A j \in 1..(i - 1) : s[j] < s[i]

\* np.maximum(rho, 0)
ClipNonNegative(rho) == Strict([i \in 1..Len(rho) |-> Max2(rho[i], 0)])

\* rho / total; 0/0 is NaN
DivideBy(rho, total) ==
    Strict([i \in 1..Len(rho) |->
        IF total = 0 THEN NaN ELSE (rho[i] * RhoScale) \div total])

\* the division taken by the number of entries instead of their sum
RenormalizeByCount(rho) == DivideBy(rho, Len(rho) * RhoScale)

\* rho /= np.sum(rho)
Renormalize(rho) == DivideBy(rho, SeqSum(rho))

\* the update without the mean
DrhoWithoutMean(delta_F) == Strict([i \in 1..Len(delta_F) |-> -delta_F[i]])

\* drho_dt = -delta_F + np.mean(delta_F)
drho_dt(delta_F) ==
    Strict([i \in 1..Len(delta_F) |->
        -delta_F[i] + SeqSum(delta_F) \div Len(delta_F)])

\* self.ensemble_rho += drho_dt * dt
Stepped(rho, drho, dt) ==
    Strict([i \in 1..Len(rho) |-> rho[i] + (drho[i] * dt) \div DtScale])

\* rho <- rho + dt * (-delta_F + mean(delta_F)), before the projection
Drift(rho, delta_F, dt) == Stepped(rho, drho_dt(delta_F), dt)

UpdateRho(rho, C, dt) ==
    Renormalize(ClipNonNegative(Drift(rho, compute_functional_derivative(rho, C), dt)))

\* the distribution carried over whatever the size of the new ensemble
InitialRhoKeep(rho, n) == rho

\* np.ones(n) / n
UniformRho(n) == Strict([i \in 1..n |-> RhoScale \div n])

\* the distribution made uniform at every step
InitialRhoReset(rho, n) == UniformRho(n)

\* len(self.ensemble_rho) != n: uniform initialisation over the new ensemble
InitialRho(rho, n) == IF Len(rho) # n THEN UniformRho(n) ELSE rho

\* the 'mode_graph' entry of the dictionaries handed to the caller
ReturnedMode(m) == m

SetMin(S) == CHOOSE x \in S : \A y \in S : x <= y

\* recent_F = self.free_energy_history[-10:]
Last10(s) == SubSeq(s, Max2(1, Len(s) - 9), Len(s))

\* max(recent_F) - min(recent_F), in units of 1/1000
Spread(s) == SetMax(Range(s)) - SetMin(Range(s))

\* the window test passing from the tenth value on
FreeEnergyStableFromTen(history) ==
    Len(history) >= 10 /\ 10 * Spread(Last10(history)) < 1

\* F_converged: more than 10 values and F_change < 1e-4
FreeEnergyStable(history) ==
    Len(history) > 10 /\ 10 * Spread(Last10(history)) < 1

ConvergenceRecord(F_converged, fixed_point) ==
    [converged |-> F_converged /\ fixed_point.is_fixed_point,
     free_energy_stable |-> F_converged,
     is_fixed_point |-> fixed_point.is_fixed_point,
     lambda_max |-> fixed_point.lambda_max,
     residual |-> fixed_point.normalized_residual,
     is_phi_eigenvalue |-> fixed_point.is_phi_eigenvalue]

\* check_convergence on the fields given; the diagrams of the ensemble are
\* valid in every state of the engine, so that verify_fixed_point returns
check_convergence(history, diagrams, rho, C) ==
    IF Len(rho) = 0 THEN [converged |-> FALSE]
    ELSE ConvergenceRecord(FreeEnergyStable(history),
                           verify_fixed_point(diagrams, rho, C))

\* the diagrams of self.ensemble
EnsembleDiagrams == Strict([i \in 1..Len(ensemble) |-> Val(heap, ensemble[i])])

EngineInit ==
    LET seed == create_seed_graph
    IN  /\ heap = (1 :> seed.nodes) @@ (2 :> seed.edges) @@ (3 :> seed.labels)
                  @@ (4 :> [nodes |-> 1, edges |-> 2, labels |-> 3])
                  @@ (5 :> seed.nodes) @@ (6 :> seed.edges) @@ (7 :> seed.labels)
                  @@ (8 :> [nodes |-> 5, edges |-> 6, labels |-> 7])
        /\ mode_graph = 4
        /\ ensemble = <<8>>
        /\ ensemble_rho = <<RhoScale>>
        /\ C_matrix = <<>>
        /\ time = 0
        /\ free_energy_history = <<>>
        /\ coherence_history = <<>>
        /\ mode_probability_history = <<>>
        /\ result = NoResult

\* the fields and the heap as a call that raises at once leaves them
Untouched ==
    [heap |-> heap, mode_graph |-> mode_graph, ensemble |-> ensemble,
     ensemble_rho |-> ensemble_rho, C_matrix |-> C_matrix, time |-> time,
     free_energy_history |-> free_energy_history,
     coherence_history |-> coherence_history,
     mode_probability_history |-> mode_probability_history,
     result |-> RaisedResult]

\* the diagrams of the generated ensemble
Diagrams(G) == Strict([i \in 1..Len(G.out) |-> Val(G.h, G.out[i])])

\* 7-9. the observables are tracked and the state dictionary returned
Returned(G, C, rho, Gm, F, mode_coherence, dt) ==
    [heap |-> Collect(Gm.h, {Gm.var} \cup Range(G.out)),
     mode_graph |-> Gm.var,
     ensemble |-> G.out,
     ensemble_rho |-> rho,
     C_matrix |-> C,
     time |-> time + dt,
     free_energy_history |-> Append(free_energy_history, F),
     coherence_history |-> Append(coherence_history, mode_coherence),
     mode_probability_history |-> Append(mode_probability_history, rho[ArgMax(rho)]),
     result |-> [status |-> "step",
                 mode_graph |-> ReturnedMode(Gm.var),
                 mode_probability |-> rho[ArgMax(rho)],
                 free_energy |-> F,
                 mode_coherence |-> mode_coherence,
                 num_diagrams |-> Len(G.out),
                 time |-> time + dt,
                 convergence |-> check_convergence(Append(free_energy_history, F),
                                                   Diagrams(G), rho, C)]]

\* 7. F = compute_free_energy(self.ensemble, self.ensemble_rho), which
\* asserts on the distribution
WithMode(G, C, rho, Gm, F, dt) ==
    IF F = Raised
    THEN [Untouched EXCEPT !.ensemble = G.out,
                           !.ensemble_rho = rho,
                           !.C_matrix = C,
                           !.mode_graph = Gm.var,
                           !.heap = Collect(Gm.h, {Gm.var} \cup Range(G.out))]
    ELSE Returned(G, C, rho, Gm, F,
                  coherence_between_diagrams(Val(Gm.h, Gm.var), Val(Gm.h, Gm.var)), dt)

\* the mode taken from the first member of the ensemble
WithRhoFirst(G, diagrams, C, rho, dt) ==
    WithMode(G, C, rho, ZXGraph_copy(G, G.out[1]),
             compute_free_energy(diagrams, rho), dt)

\* 6. mode_idx = np.argmax(rho); self.mode_graph = self.ensemble[mode_idx].copy()
WithRho(G, diagrams, C, rho, dt) ==
    WithMode(G, C, rho, ZXGraph_copy(G, G.out[ArgMax(rho)]),
             compute_free_energy(diagrams, rho), dt)

\* 4-5. the distribution is stepped and projected; a NaN in the coherence
\* matrix makes every entry NaN
WithMatrix(G, diagrams, rho0, C, dt) ==
    IF Len(G.out) = 0
    THEN \* ValueError: argmax of an empty sequence
         [Untouched EXCEPT !.ensemble = G.out,
                           !.ensemble_rho = <<>>,
                           !.C_matrix = C,
                           !.heap = Collect(G.h, {mode_graph})]
    ELSE WithRho(G, diagrams, C,
                 IF \E i \in 1..Len(C), j \in 1..Len(C) : C[i][j] = NaN
                 THEN Strict([i \in 1..Len(C) |-> NaN])
                 ELSE UpdateRho(rho0, C, dt),
                 dt)

\* 3. self.C_matrix = compute_coherence_matrix(self.ensemble), which
\* validates every diagram
WithEnsemble(G, diagrams, rho0, dt) ==
    IF \E i \in 1..Len(diagrams) : ~validate(diagrams[i])
    THEN [Untouched EXCEPT !.ensemble = G.out,
                           !.ensemble_rho = rho0,
                           !.heap = Collect(G.h, {mode_graph} \cup Range(G.out))]
    ELSE WithMatrix(G, diagrams, rho0, compute_coherence_matrix(diagrams), dt)

\* 1-2. self.ensemble = self.generate_variations(...); a KeyError inside the
\* generator leaves the engine untouched
Generated(G, dt) ==
    IF G.raised THEN Untouched
    ELSE WithEnsemble(G, Diagrams(G), InitialRho(ensemble_rho, Len(G.out)), dt)

\* one call of evolve_step: the values of the fields and of the heap when it
\* returns or raises
StepOutcome(dt, tape) ==
    Generated(generate_variations(heap, mode_graph, ensemble_size, tape), dt)

evolve_step(dt, tape) ==
    \E o \in {StepOutcome(dt, tape)} :
        /\ heap' = o.heap
        /\ mode_graph' = o.mode_graph
        /\ ensemble' = o.ensemble
        /\ ensemble_rho' = o.ensemble_rho
        /\ C_matrix' = o.C_matrix
        /\ time' = o.time
        /\ free_energy_history' = o.free_energy_history
        /\ coherence_history' = o.coherence_history
        /\ mode_probability_history' = o.mode_probability_history
        /\ result' = o.result
        /\ UNCHANGED ensemble_size

get_state ==
    /\ result' = [status |-> "state",
                  mode_graph |-> ReturnedMode(mode_graph),
                  num_nodes |-> Len(heap[heap[mode_graph].nodes]),
                  num_edges |-> Len(heap[heap[mode_graph].edges]),
                  mode_probability |->
                      IF Len(ensemble_rho) > 0
                      THEN ensemble_rho[ArgMax(ensemble_rho)] ELSE 0,
                  free_energy |->
                      IF free_energy_history # <<>>
                      THEN free_energy_history[Len(free_energy_history)] ELSE 0,
                  time |-> time,
                  convergence |-> check_convergence(free_energy_history,
                                                    EnsembleDiagrams, ensemble_rho,
                                                    C_matrix)]
    /\ UNCHANGED heap
    /\ UNCHANGED engine_vars

GenIdle == [phase |-> "idle"]
CohIdle == [phase |-> "idle"]
CallIdle == [fn |-> "none"]

\* a freshly constructed ZXEvolutionEngine(ensemble_size)
Init ==
    /\ EngineInit
    /\ ensemble_size \in EnsembleSizes
    /\ gen = GenIdle
    /\ coh = CohIdle
    /\ call = CallIdle

\* a caller invokes engine.evolve_step(dt), at most limit times, with dt
\* and the random draws taken from the sets given
EvolveStepWith(limit, dts, tapes) ==
    /\ mode_graph # 0
    /\ Len(free_energy_history) < limit
    /\ \E dt \in dts, tape \in tapes : evolve_step(dt, tape)
    /\ UNCHANGED <<gen, coh, call>>

EvolveStepUpTo(limit) == EvolveStepWith(limit, DtChoices, Tapes)

EvolveStep == EvolveStepUpTo(MaxSteps)

\* a caller invokes engine.get_state()
GetState ==
    /\ mode_graph # 0
    /\ get_state
    /\ UNCHANGED <<gen, coh, call>>

Next == EvolveStep \/ GetState

Spec == Init /\ [][Next]_vars

(***************************************************************************)
(* The variation generators called directly on a diagram of the caller     *)
(***************************************************************************)
MaxCap == 10

Caps == {0, 1, 2, 3, MaxCap}
Factors == {5, 10, 20}

Z0 == [kind |-> "Z", phase_numer |-> 0, phase_denom |-> 1]
X1 == [kind |-> "X", phase_numer |-> 1, phase_denom |-> 8]
Z3 == [kind |-> "Z", phase_numer |-> 3, phase_denom |-> 4]

\* ZXGraph(nodes, edges, {n: NodeLabel(shape[n], n)})
Diagram(nodes, edges, shapes) ==
    [nodes |-> nodes, edges |-> edges,
     labels |-> [n \in DOMAIN shapes |->
                    NodeLabel(shapes[n].kind, shapes[n].phase_numer,
                              shapes[n].phase_denom, n)]]

NoShapes == [n \in {} |-> Z0]

GenInputs ==
    { Diagram(<<>>, <<>>, NoShapes),
      create_seed_graph,
      Diagram(<<0, 1>>, <<<<0, 1>>>>, (0 :> Z0) @@ (1 :> X1)),
      Diagram(<<0, 1, 2>>, <<<<0, 1>>, <<1, 2>>>>, (0 :> Z0) @@ (1 :> X1) @@ (2 :> Z3)),
      Diagram(<<0, 2, 5, 7>>, <<>>, (0 :> Z0) @@ (2 :> Z0) @@ (5 :> X1) @@ (7 :> Z3)),
      Diagram(<<0, 1>>, <<>>, (0 :> Z0)) }

\* no engine has been constructed
EngineAbsent ==
    /\ mode_graph = 0
    /\ ensemble = <<>>
    /\ ensemble_rho = <<>>
    /\ C_matrix = <<>>
    /\ time = 0
    /\ free_energy_history = <<>>
    /\ coherence_history = <<>>
    /\ mode_probability_history = <<>>
    /\ ensemble_size = 0
    /\ result = NoResult

\* a caller holds a diagram and is about to call a generator on it
InitGenWith(inputs, caps, factors) ==
    /\ EngineAbsent
    /\ coh = CohIdle
    /\ call = CallIdle
    /\ \E d \in inputs, k \in caps, e \in factors, tape \in Tapes :
          /\ heap = (1 :> d.nodes) @@ (2 :> d.edges) @@ (3 :> d.labels)
                    @@ (4 :> [nodes |-> 1, edges |-> 2, labels |-> 3])
          /\ gen = [phase |-> "input", graph |-> 4, max_variations |-> k,
                    ef10 |-> e, tape |-> tape, before |-> d, fn |-> "none",
                    out |-> <<>>, raised |-> FALSE]

InitGen == InitGenWith(GenInputs, Caps, Factors)

GenReturn(G, fn) ==
    /\ heap' = G.h
    /\ gen' = [gen EXCEPT !.phase = "done", !.fn = fn, !.out = G.out,
                          !.raised = G.raised]
    /\ UNCHANGED <<engine_vars, result, coh, call>>

GenerateVariations ==
    /\ gen.phase = "input"
    /\ \E G \in {generate_variations(heap, gen.graph, gen.max_variations, gen.tape)} :
          GenReturn(G, "generate_variations")

GenerateVariationsImproved ==
    /\ gen.phase = "input"
    /\ \E G \in {generate_variations_improved(heap, gen.graph, gen.max_variations,
                                              gen.ef10, gen.tape)} :
          GenReturn(G, "generate_variations_improved")

NextGen == GenerateVariations \/ GenerateVariationsImproved \/ EvolveStep \/ GetState

SpecGen == (Init \/ InitGen) /\ [][NextGen]_vars

(***************************************************************************)
(* The generators called on diagrams below, at and above the size ceiling. *)
(* The ceiling of generate_variations_improved is int(15 * factor): 3, 15  *)
(* and 18 for the factors 0.2, 1.0 and 1.2.                                *)
(***************************************************************************)
CeilingSizes == {2, 3, NodeCeiling - 1, NodeCeiling, NodeCeiling + 1}
CeilingFactors == {2, 10, 12}
CeilingCaps == {3, MaxCap}

\* n spiders 0 .. n-1 without edges
Spiders(n) ==
    Diagram([i \in 1..n |-> i - 1], <<>>, [i \in 0..(n - 1) |-> IF i % 2 = 0 THEN Z0 ELSE X1])

\* three spiders in a row
Row3 == Diagram(<<0, 1, 2>>, <<<<0, 1>>, <<1, 2>>>>, (0 :> Z0) @@ (1 :> X1) @@ (2 :> Z3))

CeilingInputs == {Spiders(n) : n \in CeilingSizes} \cup {Row3}

\* a caller about to call a generator, or a fresh engine of three diagrams
InitCeiling ==
    \/ InitGenWith(CeilingInputs, CeilingCaps, CeilingFactors)
    \/ /\ EngineInit
       /\ ensemble_size = 3
       /\ gen = GenIdle
       /\ coh = CohIdle
       /\ call = CallIdle

SpecCeiling == InitCeiling /\ [][NextGen]_vars

(***************************************************************************)
(* The coherence kernel called directly on two diagrams of the caller      *)
(***************************************************************************)
X0 == [kind |-> "X", phase_numer |-> 0, phase_denom |-> 1]
\* NodeLabel('Z', 3, 1, n): the phase 3*pi
Z3pi == [kind |-> "Z", phase_numer |-> 3, phase_denom |-> 1]

CohNodeLists == {<<>>, <<0>>, <<0, 0>>, <<0, 1>>}
CohEdgeLists == {<<>>, <<<<0, 1>>>>}
CohShapes == {Z0, X0, Z3pi}
CohLabelMaps == UNION {[K -> CohShapes] : K \in {{}, {0}, {0, 1}}}

\* the diagrams the ZXGraph constructor builds from these parts and
\* validate() accepts
CohInputs ==
    {d \in {Diagram(n, e, m) : n \in CohNodeLists, e \in CohEdgeLists, m \in CohLabelMaps} :
        validate(d)}

InitCoh ==
    /\ EngineAbsent
    /\ heap = <<>>
    /\ gen = GenIdle
    /\ call = CallIdle
    /\ \E d1 \in CohInputs, d2 \in CohInputs :
          coh = [phase |-> "input", D1 |-> d1, D2 |-> d2, c |-> 0, matrix |-> <<>>]

\* a caller evaluates coherence_between_diagrams(D1, D2)
CoherenceBetween ==
    /\ coh.phase = "input"
    /\ coh' = [coh EXCEPT !.phase = "between",
                          !.c = coherence_between_diagrams(coh.D1, coh.D2)]
    /\ UNCHANGED <<heap, engine_vars, result, gen, call>>

\* a caller evaluates compute_coherence_matrix([D1, D2])
CoherenceMatrix ==
    /\ coh.phase = "input"
    /\ coh' = [coh EXCEPT !.phase = "matrix",
                          !.matrix = compute_coherence_matrix(<<coh.D1, coh.D2>>)]
    /\ UNCHANGED <<heap, engine_vars, result, gen, call>>

NextCoh == CoherenceBetween \/ CoherenceMatrix

SpecCoh == InitCoh /\ [][NextCoh]_vars

(***************************************************************************)
(* The engine together with a caller that edits the diagram it was handed  *)
(***************************************************************************)
MaxConsumerNodes == 2
MaxConsumerSteps == 1

ConsumerEvolveStep == EvolveStepUpTo(MaxConsumerSteps)

Handed == result.status \in {"step", "state"}

\* g.nodes.append(n); g.labels[n] = NodeLabel('Z', 0, 1, n)
ConsumerAppendNode ==
    /\ Handed
    /\ LET g == heap[result.mode_graph]
           n == IF heap[g.nodes] = <<>> THEN 0 ELSE SetMax(Range(heap[g.nodes])) + 1
       IN  /\ Len(heap[g.nodes]) < MaxConsumerNodes
           /\ heap' = [heap EXCEPT ![g.nodes] = Append(@, n),
                                   ![g.labels] = (n :> NodeLabel("Z", 0, 1, n)) @@ @]
    /\ UNCHANGED <<engine_vars, result, gen, coh, call>>

\* g.edges.append((g.nodes[0], g.nodes[1]))
ConsumerAppendEdge ==
    /\ Handed
    /\ LET g == heap[result.mode_graph]
       IN  /\ Len(heap[g.nodes]) >= 2
           /\ heap[g.nodes][1] # heap[g.nodes][2]
           /\ heap[g.edges] = <<>>
           /\ heap' = [heap EXCEPT ![g.edges] =
                           Append(@, <<heap[g.nodes][1], heap[g.nodes][2]>>)]
    /\ UNCHANGED <<engine_vars, result, gen, coh, call>>

\* g.labels[n] = NodeLabel(other kind, ...) for the first node n
ConsumerFlipLabel ==
    /\ Handed
    /\ LET g == heap[result.mode_graph]
       IN  /\ heap[g.nodes] # <<>>
           /\ LET n == heap[g.nodes][1]
                  old == heap[g.labels][n]
              IN  heap' = [heap EXCEPT ![g.labels][n] =
                              NodeLabel(IF old.kind = "Z" THEN "X" ELSE "Z",
                                        old.phase_numer, old.phase_denom, old.node_id)]
    /\ UNCHANGED <<engine_vars, result, gen, coh, call>>

NextConsumer ==
    \/ ConsumerEvolveStep
    \/ GetState
    \/ ConsumerAppendNode
    \/ ConsumerAppendEdge
    \/ ConsumerFlipLabel

SpecConsumer == Init /\ [][NextConsumer]_vars

(***************************************************************************)
(* The engine stepped long enough for the convergence window to fill, and  *)
(* the engine constructed with ensemble_size = 0                           *)
(***************************************************************************)
MaxConvSteps == 12

ConvSizes == {0, 1, 3}
ConvDts == {1, 100}
ConvTapes == {[i \in 1..TapeLen |-> 0]}

InitConv ==
    /\ EngineInit
    /\ ensemble_size \in ConvSizes
    /\ gen = GenIdle
    /\ coh = CohIdle
    /\ call = CallIdle

ConvEvolveStep == EvolveStepWith(MaxConvSteps, ConvDts, ConvTapes)

\* check_convergence appending the last free energy to the history again
CheckConvergenceRecording ==
    /\ free_energy_history # <<>>
    /\ free_energy_history' =
           Append(free_energy_history, free_energy_history[Len(free_energy_history)])
    /\ result' = [status |-> "convergence", mode_graph |-> 0,
                  convergence |-> check_convergence(free_energy_history,
                                                    EnsembleDiagrams, ensemble_rho,
                                                    C_matrix)]
    /\ UNCHANGED <<heap, mode_graph, ensemble, ensemble_rho, C_matrix, time,
                   coherence_history, mode_probability_history, ensemble_size,
                   gen, coh, call>>

\* a caller invokes engine.check_convergence()
CheckConvergence ==
    /\ result' = [status |-> "convergence", mode_graph |-> 0,
                  convergence |-> check_convergence(free_energy_history,
                                                    EnsembleDiagrams, ensemble_rho,
                                                    C_matrix)]
    /\ UNCHANGED <<heap, engine_vars, gen, coh, call>>

NextConv == ConvEvolveStep \/ GetState \/ CheckConvergence

SpecConv == InitConv /\ [][NextConv]_vars

(***************************************************************************)
(* zx_core.py called directly: the caller either holds two ZXGraph objects *)
(* it has built (kind "graphs") or calls the functions of plain arguments  *)
(* (kind "plain")                                                          *)
(***************************************************************************)
ZxNodeLists == {<<>>, <<0>>, <<0, 1>>}
ZxEdgeLists ==
    {<<>>, <<<<0, 1>>>>, <<<<0, 0>>>>, <<<<1, 0>>, <<0, 1>>>>, <<<<0, 1>>, <<0, 1>>>>,
     <<<<0, 2>>>>}
ZxLabelMaps == UNION {[K -> {Z0, X1}] : K \in {{}, {0}, {0, 1}}}

\* every ZXGraph(nodes, edges, labels) of these parts; the constructor
\* checks nothing
ZxInputs ==
    {Diagram(n, e, m) : n \in ZxNodeLists, e \in ZxEdgeLists, m \in ZxLabelMaps}

\* the references of the caller's two ZXGraph objects
ZxG1 == 4
ZxG2 == 8

InitZx ==
    /\ EngineAbsent
    /\ gen = GenIdle
    /\ coh = CohIdle
    /\ \/ /\ heap = <<>>
          /\ call = [fn |-> "ready", kind |-> "plain"]
       \/ \E d1 \in ZxInputs, d2 \in ZxInputs :
             /\ heap = <<d1.nodes, d1.edges, d1.labels,
                         [nodes |-> 1, edges |-> 2, labels |-> 3],
                         d2.nodes, d2.edges, d2.labels,
                         [nodes |-> 5, edges |-> 6, labels |-> 7]>>
             /\ call = [fn |-> "ready", kind |-> "graphs"]

\* the denominators and kinds a caller may hand to NodeLabel
MaxDenom == 9
DenomChoices == -2..MaxDenom
KindChoices == {"Z", "X", "Y"}

\* label = NodeLabel(kind, 0, pd, 0): the label, or AssertionError
ConstructNodeLabel ==
    /\ call.fn = "ready" /\ call.kind = "plain"
    /\ \E kind \in KindChoices, pd \in DenomChoices :
          call' = [fn |-> "NodeLabel", kind |-> kind, phase_denom |-> pd,
                   result |-> IF NodeLabelOk(kind, 0, pd) THEN "NodeLabel"
                              ELSE "AssertionError"]
    /\ UNCHANGED <<heap, engine_vars, result, gen, coh>>

\* G1.validate(): True, or AssertionError; the method assigns nothing
Validate ==
    /\ call.fn = "ready" /\ call.kind = "graphs"
    /\ call' = [fn |-> "validate", before |-> Val(heap, ZxG1),
                result |-> IF validate(Val(heap, ZxG1)) THEN "True"
                           ELSE "AssertionError"]
    /\ UNCHANGED <<heap, engine_vars, result, gen, coh>>

\* the numerators and denominators a caller may hand to add_phases
MaxNumer == 9
NumerChoices == -MaxNumer..MaxNumer
PhaseDenoms == {1, 2, 4, 8}

\* add_phases(n1, d1, n2, d2)
AddPhases ==
    /\ call.fn = "ready" /\ call.kind = "plain"
    /\ \E n1 \in NumerChoices, n2 \in NumerChoices, d1 \in PhaseDenoms, d2 \in PhaseDenoms :
          call' = [fn |-> "add_phases", n1 |-> n1, d1 |-> d1, n2 |-> n2, d2 |-> d2,
                   result |-> add_phases(n1, d1, n2, d2)]
    /\ UNCHANGED <<heap, engine_vars, result, gen, coh>>

\* graphs_equal(G1, G2)
GraphsEqual ==
    /\ call.fn = "ready" /\ call.kind = "graphs"
    /\ call' = [fn |-> "graphs_equal", G1 |-> Val(heap, ZxG1), G2 |-> Val(heap, ZxG2),
                result |-> graphs_equal(Val(heap, ZxG1), Val(heap, ZxG2))]
    /\ UNCHANGED <<heap, engine_vars, result, gen, coh>>

NextZx == ConstructNodeLabel \/ Validate \/ AddPhases \/ GraphsEqual

SpecZx == InitZx /\ [][NextZx]_vars

(***************************************************************************)
(* annealing.py: AnnealingSchedule.  Inverse temperatures are in units of  *)
(* 1/BetaScale, progress and the arguments of log and exp likewise         *)
(***************************************************************************)
BetaScale == 1000

RECURSIVE Log2Floor(_)
\* the largest k with 2^k <= r / BetaScale, for r >= BetaScale
Log2Floor(r) == IF r < 2 * BetaScale THEN 0 ELSE 1 + Log2Floor(r \div 2)

\* log2 of a ratio r >= 1, interpolated linearly between powers of two
Log2Up(r, k) == k * BetaScale + (r - BetaScale * Pow2(k)) \div Pow2(k)

Log2Milli(r) ==
    IF r >= BetaScale THEN Log2Up(r, Log2Floor(r))
    ELSE -Log2Up((BetaScale * BetaScale) \div r,
                 Log2Floor((BetaScale * BetaScale) \div r))

\* np.log(r) for r > 0 (ln 2 = 0.693)
NpLog(r) == (Log2Milli(r) * 693) \div 1000

\* 2^t, interpolated linearly between integer exponents; 2^0 is exactly 1
Exp2Parts(k, f) ==
    IF k >= 0 THEN Pow2(k) * (BetaScale + f) ELSE (BetaScale + f) \div Pow2(-k)

Exp2Milli(t) == Exp2Parts(t \div BetaScale, t % BetaScale)

\* np.exp(y)
NpExp(y) == Exp2Milli((y * 1000) \div 693)

\* progress = step / self.total_steps
Progress(step, total_steps) == (step * BetaScale) \div total_steps

\* beta = beta_initial + progress * (beta_final - beta_initial)
LinearBeta(s, progress) ==
    s.beta_initial + (progress * (s.beta_final - s.beta_initial)) \div BetaScale

\* beta_final / beta_initial raises ZeroDivisionError for a beta_final given
\* as a float; the default beta_final is a numpy float, the quotient inf,
\* and the product with progress 0 is nan
ExponentialBetaFromZero(s, progress) ==
    IF ~s.default_final THEN Raised
    ELSE IF progress = 0 THEN NaN ELSE 0

ExponentialBetaCooling(s, progress) ==
    IF s.beta_initial = 0 THEN ExponentialBetaFromZero(s, progress)
    ELSE (s.beta_initial
          * NpExp((-NpLog((s.beta_final * BetaScale) \div s.beta_initial) * progress)
                  \div BetaScale)) \div BetaScale

\* k = np.log(beta_final / beta_initial); beta = beta_initial * np.exp(k * progress)
ExponentialBeta(s, progress) ==
    IF s.beta_initial = 0 THEN ExponentialBetaFromZero(s, progress)
    ELSE (s.beta_initial
          * NpExp((NpLog((s.beta_final * BetaScale) \div s.beta_initial) * progress)
                  \div BetaScale)) \div BetaScale

\* sigmoid = 1.0 / (1.0 + np.exp(-x)) for x = (progress - 0.5) * 10
Sigmoid(progress) ==
    (BetaScale * BetaScale) \div (BetaScale + NpExp(-((progress * 10) - 5 * BetaScale)))

SigmoidBeta(s, progress) ==
    s.beta_initial + (Sigmoid(progress) * (s.beta_final - s.beta_initial)) \div BetaScale

\* beta = beta_initial + progress ** 2.0 * (beta_final - beta_initial)
PowerBeta(s, progress) ==
    s.beta_initial
    + (((progress * progress) \div BetaScale) * (s.beta_final - s.beta_initial))
      \div BetaScale

\* the branch on self.schedule_type; an unknown type raises ValueError
ScheduledBeta(s, progress) ==
    CASE s.schedule_type = "linear" -> LinearBeta(s, progress)
      [] s.schedule_type = "exponential" -> ExponentialBeta(s, progress)
      [] s.schedule_type = "sigmoid" -> SigmoidBeta(s, progress)
      [] s.schedule_type = "power" -> PowerBeta(s, progress)
      [] OTHER -> Raised

GetBetaPastEnd(s, step) ==
    IF step > s.total_steps THEN s.beta_final
    ELSE IF s.total_steps = 0 THEN Raised
    ELSE ScheduledBeta(s, Progress(step, s.total_steps))

\* AnnealingSchedule.get_beta(step) of the schedule s
get_beta(s, step) ==
    IF step >= s.total_steps THEN s.beta_final
    ELSE ScheduledBeta(s, Progress(step, s.total_steps))

MaxTotalSteps == 4

ScheduleTypes == {"linear", "exponential", "sigmoid", "power", "cosine"}
BetaInitials == {0, 100, 5000}
\* beta_final = None stands for BETA_TARGET
BetaFinals == {[value |-> BetaMilli, default |-> TRUE],
               [value |-> 5000, default |-> FALSE],
               [value |-> 100, default |-> FALSE]}

NothingReturned == [op |-> "none", step |-> 0, beta |-> 0]

\* schedule = AnnealingSchedule(schedule_type, total_steps, beta_initial, beta_final);
\* calls counts the calls of step() since construction or the last reset()
InitAnneal ==
    /\ EngineAbsent
    /\ heap = <<>>
    /\ gen = GenIdle
    /\ coh = CohIdle
    /\ \E ty \in ScheduleTypes, n \in 0..MaxTotalSteps, bi \in BetaInitials,
          bf \in BetaFinals :
          call = [fn |-> "AnnealingSchedule", schedule_type |-> ty, total_steps |-> n,
                  beta_initial |-> bi, beta_final |-> bf.value,
                  default_final |-> bf.default, current_step |-> 0,
                  current_beta |-> bi, calls |-> 0, returned |-> NothingReturned]

\* schedule.get_beta(step), or schedule.get_beta() of the current step
GetBeta ==
    /\ call.fn = "AnnealingSchedule"
    /\ \E step \in (0..(MaxTotalSteps + 1)) \cup {call.current_step} :
          call' = [call EXCEPT !.returned =
                       [op |-> "get_beta", step |-> step, beta |-> get_beta(call, step)]]
    /\ UNCHANGED <<heap, engine_vars, result, gen, coh>>

\* the schedule after self.current_step += 1
Advanced(s) == [s EXCEPT !.current_step = s.current_step + 1]

\* self.current_beta = self.get_beta(); an exception leaves current_beta
StepOf(s, beta) ==
    [s EXCEPT !.current_beta = IF beta = Raised THEN s.current_beta ELSE beta,
              !.calls = s.calls + 1,
              !.returned = [op |-> "step", step |-> s.current_step, beta |-> beta]]

\* schedule.step()
StepSchedule ==
    /\ call.fn = "AnnealingSchedule"
    /\ call.current_step <= MaxTotalSteps
    /\ call' = StepOf(Advanced(call), get_beta(Advanced(call), call.current_step + 1))
    /\ UNCHANGED <<heap, engine_vars, result, gen, coh>>

\* schedule.reset()
ResetSchedule ==
    /\ call.fn = "AnnealingSchedule"
    /\ call' = [call EXCEPT !.current_step = 0, !.current_beta = call.beta_initial,
                            !.calls = 0,
                            !.returned = [op |-> "reset", step |-> 0,
                                          beta |-> call.beta_initial]]
    /\ UNCHANGED <<heap, engine_vars, result, gen, coh>>

\* the test with the first step after the end
IsCompleteAfterEnd(s) == s.current_step > s.total_steps

\* schedule.is_complete()
is_complete(s) == s.current_step >= s.total_steps

\* schedule.progress(): min(current_step / total_steps, 1.0), in thousandths
progress(s) ==
    IF s.total_steps = 0 THEN Raised
    ELSE Min2((s.current_step * BetaScale) \div s.total_steps, BetaScale)

NextAnneal == GetBeta \/ StepSchedule \/ ResetSchedule

SpecAnneal == InitAnneal /\ [][NextAnneal]_vars

(***************************************************************************)
(* create_seed_graph and the engine's constructor called by a caller that  *)
(* keeps the diagrams returned to it and may modify them                   *)
(***************************************************************************)
MaxSeeds == 3

\* create_seed_graph handing out the containers of the first seed again
SeedCellsShared(h, nx) ==
    (nx :> create_seed_graph.nodes) @@ ((nx + 1) :> create_seed_graph.edges)
    @@ ((nx + 2) :> create_seed_graph.labels)
    @@ ((nx + 3) :> IF nx = 1 THEN [nodes |-> 1, edges |-> 2, labels |-> 3] ELSE h[4])
    @@ h

\* the ZXGraph built by create_seed_graph, in the cells nx .. nx + 3
SeedCells(h, nx) ==
    (nx :> create_seed_graph.nodes) @@ ((nx + 1) :> create_seed_graph.edges)
    @@ ((nx + 2) :> create_seed_graph.labels)
    @@ ((nx + 3) :> [nodes |-> nx, edges |-> nx + 1, labels |-> nx + 2]) @@ h

NoSeedReturned == [op |-> "none", ref |-> 0, other |-> 0, before |-> {}, equal |-> FALSE]

InitSeed ==
    /\ EngineAbsent
    /\ heap = <<>>
    /\ gen = GenIdle
    /\ coh = CohIdle
    /\ call = [fn |-> "seeds", held |-> <<>>, returned |-> NoSeedReturned]

\* g = create_seed_graph()
CreateSeedGraph ==
    /\ call.fn = "seeds"
    /\ Len(call.held) < MaxSeeds
    /\ heap' = SeedCells(heap, Fresh(heap))
    /\ call' = [call EXCEPT !.held = Append(@, Fresh(heap) + 3),
                            !.returned = [op |-> "create_seed_graph",
                                          ref |-> Fresh(heap) + 3, other |-> 0,
                                          before |-> DOMAIN heap, equal |-> FALSE]]
    /\ UNCHANGED <<engine_vars, result, gen, coh>>

\* graphs_equal(create_seed_graph(), create_seed_graph())
CompareSeeds ==
    /\ call.fn = "seeds"
    /\ Len(call.held) + 2 <= MaxSeeds
    /\ heap' = SeedCells(SeedCells(heap, Fresh(heap)), Fresh(heap) + 4)
    /\ call' = [call EXCEPT !.held = @ \o <<Fresh(heap) + 3, Fresh(heap) + 7>>,
                            !.returned = [op |-> "graphs_equal",
                                          ref |-> Fresh(heap) + 3,
                                          other |-> Fresh(heap) + 7,
                                          before |-> DOMAIN heap,
                                          equal |-> graphs_equal(Val(heap', Fresh(heap) + 3),
                                                                 Val(heap', Fresh(heap) + 7))]]
    /\ UNCHANGED <<engine_vars, result, gen, coh>>

\* the caller appends a node to a diagram it holds, or relabels node 0
ModifyHeld ==
    /\ call.fn = "seeds"
    /\ \E i \in 1..Len(call.held) :
          \/ /\ Len(heap[heap[call.held[i]].nodes]) < 2
             /\ heap' = [heap EXCEPT ![heap[call.held[i]].nodes] = Append(@, 1),
                                     ![heap[call.held[i]].labels] =
                                         (1 :> NodeLabel("X", 1, 8, 1)) @@ @]
          \/ /\ heap[heap[call.held[i]].labels][0].kind = "Z"
             /\ heap' = [heap EXCEPT ![heap[call.held[i]].labels][0] =
                                         NodeLabel("X", 0, 1, 0)]
    /\ call' = [call EXCEPT !.returned = NoSeedReturned]
    /\ UNCHANGED <<engine_vars, result, gen, coh>>

\* self.ensemble = [self.mode_graph.copy()] for the mode graph in cell g
SeedCopied(h, g) == ZXGraph_copy([h |-> h, nx |-> Fresh(h), var |-> 0], g)

\* engine = ZXEvolutionEngine(ensemble_size)
ConstructEngine ==
    /\ call.fn = "seeds"
    /\ mode_graph = 0
    /\ \E n \in EnsembleSizes : ensemble_size' = n
    /\ mode_graph' = Fresh(heap) + 3
    /\ heap' = SeedCopied(SeedCells(heap, Fresh(heap)), Fresh(heap) + 3).h
    /\ ensemble' = <<SeedCopied(SeedCells(heap, Fresh(heap)), Fresh(heap) + 3).var>>
    /\ ensemble_rho' = <<RhoScale>>
    /\ C_matrix' = <<>>
    /\ time' = 0
    /\ free_energy_history' = <<>>
    /\ coherence_history' = <<>>
    /\ mode_probability_history' = <<>>
    /\ call' = [call EXCEPT !.returned = [op |-> "ZXEvolutionEngine",
                                          ref |-> Fresh(heap) + 3, other |-> 0,
                                          before |-> DOMAIN heap, equal |-> FALSE]]
    /\ UNCHANGED <<result, gen, coh>>

NextSeed == CreateSeedGraph \/ CompareSeeds \/ ModifyHeld \/ ConstructEngine

SpecSeed == InitSeed /\ [][NextSeed]_vars

(***************************************************************************)
(* compute_entropy called on vectors whose entries are multiples of        *)
(* 1/20: the probability vectors of up to MaxRhoLen entries, and two       *)
(* vectors that do not sum to 1                                            *)
(***************************************************************************)
MaxRhoLen == 5

RhoGrid == RhoScale \div 20

RECURSIVE Compositions(_, _)
\* the vectors of n multiples of RhoGrid that sum to total
Compositions(n, total) ==
    IF n = 0 THEN (IF total = 0 THEN {<<>>} ELSE {})
    ELSE UNION {{<<k * RhoGrid>> \o c : c \in Compositions(n - 1, total - k * RhoGrid)} :
                k \in 0..(total \div RhoGrid)}

EntropyInputs ==
    UNION {Compositions(n, RhoScale) : n \in 1..MaxRhoLen}
    \cup {<<RhoScale - RhoGrid>>, <<RhoScale, RhoGrid>>}

InitEntropy ==
    /\ EngineAbsent
    /\ heap = <<>>
    /\ gen = GenIdle
    /\ coh = CohIdle
    /\ \E rho \in EntropyInputs : call = [fn |-> "ready", kind |-> "rho", rho |-> rho]

\* S = compute_entropy(rho): the entropy, or AssertionError
ComputeEntropy ==
    /\ call.fn = "ready" /\ call.kind = "rho"
    /\ call' = [fn |-> "compute_entropy", rho |-> call.rho,
                result |-> compute_entropy(call.rho)]
    /\ UNCHANGED <<heap, engine_vars, result, gen, coh>>

NextEntropy == ComputeEntropy

SpecEntropy == InitEntropy /\ [][NextEntropy]_vars

(***************************************************************************)
(* The engine stepped by a caller that keeps a copy of ensemble_rho taken  *)
(* before each step, and modifies the diagram handed to it between steps   *)
(***************************************************************************)
MaxReinitSteps == 3

ReinitDts == {10, 100}

\* the time steps of the calls that have returned so far
LoggedDts == IF call.fn = "evolve_step" THEN call.dts ELSE <<>>

\* before = engine.ensemble_rho.copy(); engine.evolve_step(dt); dts.append(dt)
ObservedStepWith(dts) ==
    /\ mode_graph # 0
    /\ Len(free_energy_history) < MaxReinitSteps
    /\ \E dt \in dts, tape \in ConvTapes :
          /\ evolve_step(dt, tape)
          /\ call' = [fn |-> "evolve_step", rho_before |-> ensemble_rho, dt |-> dt,
                      dts |-> IF result'.status = "step" THEN Append(LoggedDts, dt)
                              ELSE LoggedDts]
    /\ UNCHANGED <<gen, coh>>

ObservedEvolveStep == ObservedStepWith(ReinitDts)

NextReinit ==
    \/ ObservedEvolveStep
    \/ ConsumerAppendNode
    \/ ConsumerAppendEdge
    \/ ConsumerFlipLabel

SpecReinit == Init /\ [][NextReinit]_vars

(***************************************************************************)
(* The engine run by a caller that steps it, reads its state, and modifies *)
(* the diagrams handed to it                                               *)
(***************************************************************************)
\* variations = engine.generate_variations(engine.mode_graph,
\* engine.ensemble_size), the list dropped after its diagrams are counted
EngineGenerateVariations ==
    /\ mode_graph # 0
    /\ \E tape \in ConvTapes :
          gen' = [phase |-> "counted",
                  count |-> Len(generate_variations(heap, mode_graph, ensemble_size,
                                                    tape).out)]
    /\ UNCHANGED <<heap, engine_vars, result, coh, call>>

RunSizes == {1, 3}

RunDts == {100, MaxDt}

InitRun ==
    /\ EngineInit
    /\ ensemble_size \in RunSizes
    /\ gen = GenIdle
    /\ coh = CohIdle
    /\ call = CallIdle

RunEvolveStep == ObservedStepWith(RunDts)

NextRun ==
    \/ RunEvolveStep
    \/ GetState
    \/ CheckConvergence
    \/ EngineGenerateVariations
    \/ ConsumerAppendNode
    \/ ConsumerAppendEdge
    \/ ConsumerFlipLabel

SpecRun == InitRun /\ [][NextRun]_vars

(***************************************************************************)
(* Properties of the engine                                                *)
(***************************************************************************)
\* the cells a ZXGraph object consists of
Cells(h, g) == {g, h[g].nodes, h[g].edges, h[g].labels}

\* C1: in every state reached from a fresh engine by evolve_step calls with
\* any dt > 0, every entry of ensemble_rho is non-negative and the entries
\* sum to 1 within the tolerance.
C1_DistributionInvariant ==
    mode_graph # 0 =>
        /\ \A i \in 1..Len(ensemble_rho) : ensemble_rho[i] >= 0
        /\ SumsToOne(ensemble_rho)

\* two steps with the largest dt have completed on an ensemble of several
\* diagrams
C1_Witness ==
    /\ result.status = "step"
    /\ Len(ensemble_rho) >= 3
    /\ time >= 2 * MaxDt

\* C2: in the initial state and after every evolve_step the distribution has
\* one entry per ensemble member.
C2_Pairing == Len(ensemble_rho) = Len(ensemble)

\* a step has replaced the one-member initial ensemble by a larger one
C2_Witness ==
    /\ result.status = "step"
    /\ Len(ensemble) > 1
    /\ Len(ensemble_rho) = Len(ensemble)

\* C3: from the seed, for every ensemble_size >= 1 and every dt > 0, no
\* evolve_step raises, the returned mode_probability lies in [0, 1] and the
\* returned mode diagram passes validate().
C3_SteppingIsSafe ==
    /\ result.status # "raised"
    /\ result.status = "step" =>
          /\ result.mode_probability >= 0
          /\ result.mode_probability <= RhoScale
          /\ validate(Val(heap, result.mode_graph))

\* a second step has returned on an ensemble with generated variations
C3_Witness ==
    /\ result.status = "step"
    /\ Len(free_energy_history) >= 2
    /\ result.num_diagrams >= 2

(***************************************************************************)
(* Properties of the variation generators                                  *)
(***************************************************************************)
GenReturned == gen.phase = "done" /\ ~gen.raised

GenOut(i) == Val(heap, gen.out[i])

\* C4 as stated: for every diagram and every cap k both generators return at
\* most k diagrams, one of them graphs_equal to the input, and after every
\* evolve_step the ensemble has at most ensemble_size members.
C4_BoundsForEveryCap ==
    /\ GenReturned =>
          /\ Len(gen.out) <= gen.max_variations
          /\ \E i \in 1..Len(gen.out) : graphs_equal(GenOut(i), gen.before)
    /\ result.status = "step" => Len(ensemble) <= ensemble_size

\* C4 amended: for every diagram and every cap k >= 1, a generator call that
\* returns yields at most k diagrams, one of them graphs_equal to the input,
\* and after every evolve_step the ensemble has at most ensemble_size
\* members.
C4_BoundsForPositiveCap ==
    /\ (GenReturned /\ gen.max_variations >= 1) =>
          /\ Len(gen.out) <= gen.max_variations
          /\ \E i \in 1..Len(gen.out) : graphs_equal(GenOut(i), gen.before)
    /\ result.status = "step" => Len(ensemble) <= ensemble_size

\* the engine's generator has returned exactly as many diagrams as the cap
\* allows, for a cap above 1, on a diagram with more candidate variations
C4_Witness ==
    /\ GenReturned
    /\ gen.fn = "generate_variations"
    /\ gen.max_variations >= 2
    /\ Len(gen.out) = gen.max_variations
    /\ Len(gen.before.nodes) >= 3

\* C6: the generators leave their input diagram unchanged, no two returned
\* diagrams share a node list, edge list or label map with each other or
\* with the input, and the ensemble members of the engine share none with
\* each other or with the mode diagram.
C6_GeneratorsCopy ==
    /\ gen.phase = "done" =>
          /\ heap[gen.graph] = [nodes |-> 1, edges |-> 2, labels |-> 3]
          /\ Val(heap, gen.graph) = gen.before
    /\ GenReturned =>
          /\ \A i \in 1..Len(gen.out) :
                Cells(heap, gen.out[i]) \cap Cells(heap, gen.graph) = {}
          /\ \A i, j \in 1..Len(gen.out) :
                i # j => Cells(heap, gen.out[i]) \cap Cells(heap, gen.out[j]) = {}
    /\ mode_graph # 0 =>
          /\ \A i \in 1..Len(ensemble) :
                Cells(heap, ensemble[i]) \cap Cells(heap, mode_graph) = {}
          /\ \A i, j \in 1..Len(ensemble) :
                i # j => Cells(heap, ensemble[i]) \cap Cells(heap, ensemble[j]) = {}

\* the improved generator has returned several diagrams, one of them with a
\* label different from the input's
C6_Witness ==
    /\ GenReturned
    /\ gen.fn = "generate_variations_improved"
    /\ Len(gen.out) >= 3
    /\ \E i \in 1..Len(gen.out) :
          /\ GenOut(i).nodes = gen.before.nodes
          /\ GenOut(i).labels # gen.before.labels

\* C7: given a diagram that passes validate(), every diagram a generator
\* returns passes validate(), and every ensemble member of the engine does.
C7_VariationsValidate ==
    /\ (GenReturned /\ validate(gen.before)) =>
          \A i \in 1..Len(gen.out) : validate(GenOut(i))
    /\ mode_graph # 0 =>
          \A i \in 1..Len(ensemble) : validate(Val(heap, ensemble[i]))

\* C5: the diagram handed to the caller shares no mutable state with the
\* engine: when the caller edits it (the heap changes while every field of
\* the engine and the handed reference stay as they are), the engine's mode
\* diagram and every ensemble member keep their value.
C5_ModeIsCopy ==
    [][(UNCHANGED engine_vars /\ result' = result /\ heap' # heap) =>
          /\ Val(heap', mode_graph) = Val(heap, mode_graph)
          /\ \A i \in 1..Len(ensemble) :
                Val(heap', ensemble[i]) = Val(heap, ensemble[i])]_vars

(***************************************************************************)
(* Properties of the coherence kernel                                      *)
(***************************************************************************)
\* C8: for every diagram d that passes validate(), the zero-node diagram
\* included, coherence_between_diagrams(d, d) is 1, and every coherence
\* matrix of valid diagrams has unit diagonal.
C8_SelfCoherence ==
    /\ (coh.phase = "between" /\ coh.D1 = coh.D2) => coh.c = CohScale
    /\ coh.phase = "matrix" =>
          \A i \in 1..Len(coh.matrix) : coh.matrix[i][i] = CohScale

\* C9: for every two diagrams that pass validate() the coherence does not
\* depend on the order of the arguments: the coherence matrix is symmetric.
C9_Symmetry ==
    coh.phase = "matrix" =>
        \A i, j \in 1..Len(coh.matrix) : coh.matrix[i][j] = coh.matrix[j][i]

\* C10: for every two diagrams that pass validate() the coherence is a real
\* number between 0 and 1, singly and as an entry of the coherence matrix.
C10_Bounded ==
    /\ coh.phase = "between" => (coh.c >= 0 /\ coh.c <= CohScale)
    /\ coh.phase = "matrix" =>
          \A i, j \in 1..Len(coh.matrix) :
              coh.matrix[i][j] >= 0 /\ coh.matrix[i][j] <= CohScale

(***************************************************************************)
(* Properties of zx_core.py                                                *)
(***************************************************************************)
\* C11: validate() raises AssertionError exactly when some edge is a
\* self-loop, some edge endpoint is not in the node list or some node has no
\* label, and returns True otherwise (the zero-node diagram included); it
\* leaves the diagram as it was; NodeLabel rejects a phase denominator that
\* is not a power of two.
C11_ValidationContract ==
    /\ call.fn = "validate" =>
          /\ call.result \in {"True", "AssertionError"}
          /\ call.result = "AssertionError" <=>
                \/ \E i \in 1..Len(call.before.edges) :
                      \/ call.before.edges[i][1] = call.before.edges[i][2]
                      \/ call.before.edges[i][1] \notin Range(call.before.nodes)
                      \/ call.before.edges[i][2] \notin Range(call.before.nodes)
                \/ \E i \in 1..Len(call.before.nodes) :
                      call.before.nodes[i] \notin DOMAIN call.before.labels
          /\ Val(heap, ZxG1) = call.before
    /\ (call.fn = "NodeLabel" /\ ~(\E k \in 0..MaxDenom : call.phase_denom = 2 ^ k)) =>
          call.result = "AssertionError"

\* validate() has failed on a diagram whose edges are sound and whose only
\* defect is a node without a label
C11_Witness ==
    /\ call.fn = "validate"
    /\ call.result = "AssertionError"
    /\ call.before.edges # <<>>
    /\ ValidateEdgesOnly(call.before)

\* C12: for all integer numerators and power-of-two denominators
\* add_phases returns (n, d) with d a power of two, 0 <= n < 2d, n/d in
\* lowest terms and n/d congruent to n1/d1 + n2/d2 modulo 2.
C12_PhaseSum ==
    call.fn = "add_phases" =>
        /\ \E k \in 0..3 : call.result[2] = 2 ^ k
        /\ call.result[1] >= 0
        /\ call.result[1] < 2 * call.result[2]
        /\ \A k \in 2..call.result[2] :
              ~(call.result[1] % k = 0 /\ call.result[2] % k = 0)
        /\ (call.result[1] * call.d1 * call.d2
            - (call.n1 * call.d2 + call.n2 * call.d1) * call.result[2])
           % (2 * call.result[2] * call.d1 * call.d2) = 0

\* a negative sum has been wrapped into range and reduced to a smaller
\* denominator
C12_Witness ==
    /\ call.fn = "add_phases"
    /\ call.n1 * call.d2 + call.n2 * call.d1 < 0
    /\ call.result[2] > 1
    /\ call.result[2] < call.d1
    /\ call.result[2] < call.d2

\* C13: graphs_equal(G1, G2) is true if and only if the two diagrams have
\* the same node count, every node carries the same label in both, and they
\* have the same edge set, in whatever order the edges are listed.
C13_StructuralEquality ==
    call.fn = "graphs_equal" =>
        (call.result <=>
            /\ Len(call.G1.nodes) = Len(call.G2.nodes)
            /\ Range(call.G1.nodes) = Range(call.G2.nodes)
            /\ \A n \in Range(call.G1.nodes) : LabelGet(call.G1, n) = LabelGet(call.G2, n)
            /\ Range(call.G1.edges) = Range(call.G2.edges))

(***************************************************************************)
(* Properties of the convergence diagnostic                                *)
(***************************************************************************)
HasDiagnostic == result.status \in {"step", "state", "convergence"}

\* C14: in every reachable state the diagnostic reports converged only if
\* free_energy_stable and is_fixed_point are both true, free_energy_stable
\* only if more than 10 free-energy values are recorded and the last 10 have
\* a spread below 1e-4, and converged is false during the first 10 steps.
C14_ConvergedOnlyWhenBoth ==
    HasDiagnostic =>
        /\ result.convergence.converged =>
              /\ result.convergence.free_energy_stable
              /\ result.convergence.is_fixed_point
        /\ ("free_energy_stable" \in DOMAIN result.convergence
            /\ result.convergence.free_energy_stable) =>
              /\ Len(free_energy_history) > 10
              /\ \A i, j \in (Len(free_energy_history) - 9)..Len(free_energy_history) :
                    free_energy_history[i] = free_energy_history[j]
        /\ Len(free_energy_history) <= 10 => ~result.convergence.converged

\* the eleventh step on an ensemble of three diagrams has reported
\* convergence
C14_Witness ==
    /\ result.status = "step"
    /\ result.num_diagrams = 3
    /\ Len(free_energy_history) = 11
    /\ result.convergence.converged

\* C15: every convergence diagnostic produced by evolve_step,
\* check_convergence or get_state contains the fields converged (a
\* boolean), lambda_max and residual.
C15_DiagnosticShape ==
    HasDiagnostic =>
        /\ {"converged", "lambda_max", "residual"} \subseteq DOMAIN result.convergence
        /\ result.convergence.converged \in BOOLEAN

(***************************************************************************)
(* Properties of the annealing schedule                                    *)
(***************************************************************************)
NamedKinds == {"linear", "exponential", "sigmoid", "power"}

BetaReturned ==
    call.fn = "AnnealingSchedule" /\ call.returned.op \in {"get_beta", "step"}

\* get_beta returns exactly beta_final for every step >= total_steps
ExactlyFinalPastEnd ==
    (call.schedule_type \in NamedKinds /\ call.returned.step >= call.total_steps)
        => call.returned.beta = call.beta_final

C17_Monotone ==
    (/\ BetaReturned
     /\ call.schedule_type \in {"linear", "exponential"}
     /\ 0 < call.beta_initial
     /\ call.beta_initial < call.beta_final
     /\ 1 <= call.returned.step
     /\ call.returned.step <= call.total_steps)
        => get_beta(call, call.returned.step - 1) <= call.returned.beta

\* the last step of an exponential schedule: strictly between the two
\* ends before it, exactly beta_final after it
C17_Witness ==
    /\ BetaReturned
    /\ call.returned.op = "step"
    /\ call.schedule_type = "exponential"
    /\ call.beta_initial = 100
    /\ call.default_final
    /\ call.returned.step = call.total_steps
    /\ call.total_steps >= 2
    /\ call.returned.beta = call.beta_final
    /\ get_beta(call, call.returned.step - 1) > call.beta_initial
    /\ get_beta(call, call.returned.step - 1) < call.beta_final

(***************************************************************************)
(* Properties of the seed and of the fresh engine                          *)
(***************************************************************************)
\* the diagram in cell g is the seed, in containers that did not exist
\* before the call
FreshSeed(g, before) ==
    /\ Val(heap, g) = create_seed_graph
    /\ Cells(heap, g) \cap before = {}

\* C18: every call of create_seed_graph returns a fresh diagram with exactly
\* one node (id 0), no edges and the label Z with phase 0/1, so two calls
\* yield graphs_equal diagrams; a freshly constructed engine has mode = seed,
\* ensemble = one copy of the seed, ensemble_rho = [1], time = 0 and an empty
\* free-energy history.
C18_SeedAndInitialState ==
    /\ (call.fn = "seeds" /\ call.returned.op = "create_seed_graph")
           => /\ FreshSeed(call.returned.ref, call.returned.before)
              /\ Val(heap, call.returned.ref).nodes = <<0>>
              /\ Val(heap, call.returned.ref).edges = <<>>
              /\ Val(heap, call.returned.ref).labels = (0 :> NodeLabel("Z", 0, 1, 0))
    /\ (call.fn = "seeds" /\ call.returned.op = "graphs_equal")
           => /\ call.returned.equal
              /\ FreshSeed(call.returned.ref, call.returned.before)
              /\ FreshSeed(call.returned.other, call.returned.before)
              /\ Cells(heap, call.returned.ref) \cap Cells(heap, call.returned.other) = {}
    /\ (call.fn = "seeds" /\ call.returned.op = "ZXEvolutionEngine")
           => /\ FreshSeed(mode_graph, call.returned.before)
              /\ Len(ensemble) = 1
              /\ FreshSeed(ensemble[1], call.returned.before)
              /\ Cells(heap, ensemble[1]) \cap Cells(heap, mode_graph) = {}
              /\ ensemble_rho = <<RhoScale>>
              /\ time = 0
              /\ free_energy_history = <<>>

\* an engine constructed after the caller has modified a seed it was given
C18_Witness ==
    /\ call.fn = "seeds"
    /\ call.returned.op = "ZXEvolutionEngine"
    /\ \E i \in 1..Len(call.held) : Val(heap, call.held[i]) # create_seed_graph
    /\ Val(heap, mode_graph) = create_seed_graph
    /\ Val(heap, ensemble[1]) = create_seed_graph
    /\ ensemble_rho = <<RhoScale>>

(***************************************************************************)
(* Properties of the entropy                                               *)
(***************************************************************************)
IsProbabilityVector(rho) ==
    /\ \A i \in 1..Len(rho) : rho[i] >= 0
    /\ SeqSum(rho) = RhoScale

IsUniform(rho) == \A i \in 1..Len(rho) : rho[i] = rho[1]

IsPointMass(rho) == \E i \in 1..Len(rho) : rho[i] = RhoScale

\* log(n), in units of 1/1000
LogOfLength(rho) == LnInt(Len(rho)) \div 100

\* equal within one rounding unit of the entropy
WithinRounding(a, b) == Abs(a - b) <= 1

\* C19: for any probability vector rho of length n, 0 <= compute_entropy(rho)
\* <= log(n), with entropy equal to log(n) iff rho is uniform and equal to 0
\* iff rho is a point mass; zero entries contribute 0 instead of raising.
C19_EntropyBounds ==
    (call.fn = "compute_entropy" /\ IsProbabilityVector(call.rho))
        => /\ call.result # Raised
           /\ 0 <= call.result
           /\ call.result <= LogOfLength(call.rho)
           /\ WithinRounding(call.result, LogOfLength(call.rho)) <=> IsUniform(call.rho)
           /\ call.result = 0 <=> IsPointMass(call.rho)

\* a vector with a zero entry, neither uniform nor a point mass: the
\* entropy lies strictly between the bounds
C19_Witness ==
    /\ call.fn = "compute_entropy"
    /\ IsProbabilityVector(call.rho)
    /\ Len(call.rho) = 3
    /\ \E i \in 1..3 : call.rho[i] = 0
    /\ ~IsPointMass(call.rho)
    /\ 0 < call.result
    /\ call.result < LogOfLength(call.rho) - 1

(***************************************************************************)
(* Properties of the re-initialisation of the distribution                 *)
(***************************************************************************)
StepObserved ==
    /\ call.fn = "evolve_step"
    /\ result.status = "step"
    /\ \A i \in 1..Len(C_matrix), j \in 1..Len(C_matrix) : C_matrix[i][j] # NaN

\* C20: in evolve_step, ensemble_rho is reset to the uniform vector 1/n over
\* the regenerated ensemble if and only if the new ensemble size n differs
\* from the length ensemble_rho had before the step; when the sizes are equal
\* the previous ensemble_rho is carried over index by index and is the
\* starting point of the gradient update.
C20_ResetOnlyOnSizeChange ==
    StepObserved =>
        /\ Len(call.rho_before) # Len(ensemble)
               => ensemble_rho = UpdateRho(UniformRho(Len(ensemble)), C_matrix, call.dt)
        /\ Len(call.rho_before) = Len(ensemble)
               => ensemble_rho = UpdateRho(call.rho_before, C_matrix, call.dt)

\* a step of an ensemble of unchanged size from a distribution that is not
\* uniform, ending where a step from the uniform vector would not
C20_Witness ==
    /\ StepObserved
    /\ Len(free_energy_history) >= 2
    /\ Len(call.rho_before) = Len(ensemble)
    /\ call.rho_before # UniformRho(Len(ensemble))
    /\ ensemble_rho # UpdateRho(UniformRho(Len(ensemble)), C_matrix, call.dt)

(***************************************************************************)
(* Properties of a run of the engine                                       *)
(***************************************************************************)
\* an evolve_step call returns in this step
StepCompletes == Len(free_energy_history') = Len(free_energy_history) + 1

\* the mode is the first most probable member of the ensemble
ModeExtracted ==
    /\ graphs_equal(Val(heap, mode_graph), Val(heap, ensemble[ArgMax(ensemble_rho)]))
    /\ result.mode_probability = ensemble_rho[ArgMax(ensemble_rho)]
    /\ \A j \in 1..Len(ensemble_rho) : ensemble_rho[j] <= result.mode_probability
    /\ result.mode_probability # NaN

\* C21: after every evolve_step, engine.mode_graph is graphs_equal to
\* ensemble[i] where i is the first index at which ensemble_rho attains its
\* maximum, the returned mode_probability equals ensemble_rho[i] =
\* max(ensemble_rho), and get_state() called right after reports the same
\* mode_probability.
C21_ModeIsArgmax ==
    [][/\ StepCompletes => ModeExtracted'
       /\ (result.status = "step" /\ result'.status = "state")
              => result'.mode_probability = result.mode_probability]_vars

\* a step has returned with the maximum of the distribution away from the
\* first member, and the mode differs from the first member
C21_Witness ==
    /\ result.status = "step"
    /\ call.fn = "evolve_step"
    /\ ArgMax(ensemble_rho) > 1
    /\ ModeExtracted
    /\ ~graphs_equal(Val(heap, mode_graph), Val(heap, ensemble[1]))

\* C22: after k completed evolve_step calls with time steps dt_1..dt_k,
\* free_energy_history, coherence_history and mode_probability_history each
\* hold exactly k entries and engine.time equals dt_1 + ... + dt_k;
\* check_convergence, get_state and generate_variations change none of them.
C22_Bookkeeping ==
    /\ Len(free_energy_history) = Len(LoggedDts)
    /\ Len(coherence_history) = Len(LoggedDts)
    /\ Len(mode_probability_history) = Len(LoggedDts)
    /\ time = SeqSum(LoggedDts)

\* two steps of different dt have returned, and the engine has since been
\* read and asked for variations
C22_Witness ==
    /\ Len(LoggedDts) = 2
    /\ LoggedDts[1] # LoggedDts[2]
    /\ Len(free_energy_history) = 2
    /\ time = LoggedDts[1] + LoggedDts[2]
    /\ result.status \in {"state", "convergence"}
    /\ gen.phase = "counted"

\* len(self.mode_graph.nodes)
ModeNodeCount == Len(heap[heap[mode_graph].nodes])

\* C23: along every run of the engine the node count of the mode diagram
\* after an evolve_step is greater than or equal to its node count before the
\* step, and exceeds it by at most one; so after any number of steps the
\* mode has at least as many nodes as the seed.
C23_ModeNeverShrinks ==
    [][/\ (StepCompletes \/ mode_graph' # mode_graph)
              => /\ ModeNodeCount' >= ModeNodeCount
                 /\ ModeNodeCount' <= ModeNodeCount + 1
       /\ ModeNodeCount' >= Len(create_seed_graph.nodes)]_vars

\* a step has returned with a mode one node larger than the copy of the
\* previous mode that heads the ensemble
C23_Witness ==
    /\ result.status = "step"
    /\ call.fn = "evolve_step"
    /\ ModeExtracted
    /\ ModeNodeCount = Len(heap[heap[ensemble[1]].nodes]) + 1

(***************************************************************************)
(* Properties of the update of the distribution, read off the state a step *)
(* leaves: the distribution the update started from, its derivative and    *)
(* the vector before the projection                                        *)
(***************************************************************************)
UpdateObserved == call.fn = "evolve_step" /\ result.status = "step"

StartRho == InitialRho(call.rho_before, Len(ensemble))

StartDerivative == compute_functional_derivative(StartRho, C_matrix)

BeforeClip == Drift(StartRho, StartDerivative, call.dt)

\* the rounding the arithmetic leaves in a sum of n entries stepped by dt:
\* one unit per entry of rho, of the update, and of the mean times dt
RoundingOf(n, dt) == n * (2 + (dt + DtScale - 1) \div DtScale)

\* C24: in every evolve_step with a non-empty ensemble the update
\* -delta_F + mean(delta_F) sums to zero, so rho + dt * update sums to 1
\* before clipping, at least one entry is strictly positive, the clipped
\* vector has sum >= 1, and the renormalising division always has a strictly
\* positive divisor, for every dt.  Sums are equal within the rounding of
\* the arithmetic.
C24_DivisorIsPositive ==
    /\ call.fn = "evolve_step" => ~HasNaN(ensemble_rho)
    /\ UpdateObserved =>
          /\ Abs(SeqSum(drho_dt(StartDerivative))) <= Len(ensemble)
          /\ Abs(SeqSum(BeforeClip) - RhoScale) <= RoundingOf(Len(ensemble), call.dt)
          /\ \E i \in 1..Len(ensemble) : BeforeClip[i] > 0
          /\ SeqSum(ClipNonNegative(BeforeClip)) >= SeqSum(BeforeClip)
          /\ SeqSum(ClipNonNegative(BeforeClip))
                 >= RhoScale - RoundingOf(Len(ensemble), call.dt)
          /\ SeqSum(ClipNonNegative(BeforeClip)) > 0
          /\ ensemble_rho = Renormalize(ClipNonNegative(BeforeClip))

\* a step in which the update drove an entry below zero: the clipped sum
\* exceeds 1 and the division brings it back
C24_Witness ==
    /\ UpdateObserved
    /\ \E i \in 1..Len(ensemble) : BeforeClip[i] < 0
    /\ SeqSum(ClipNonNegative(BeforeClip)) > RhoScale
    /\ SumsToOne(ensemble_rho)

(***************************************************************************)
(* Properties of the size ceiling of the generators.                       *)
(***************************************************************************)
\* the ceiling of the generator that was called
CeilingOfCall ==
    IF gen.fn = "generate_variations" THEN NodeCeiling ELSE MaxNodesFor(gen.ef10)

SourceNodeCount == Len(gen.before.nodes)

\* C25: a generator called on a diagram returns without raising and no
\* returned diagram has more nodes than max(ceiling, node count of the
\* source), where the ceiling is 15 for ZXEvolutionEngine.generate_variations
\* and int(15 * exploration_factor) for generate_variations_improved (so a
\* source at or above the ceiling is never enlarged); and the mode diagram
\* and every ensemble member of an engine have at most 15 nodes.
C25_SizeCeiling ==
    /\ gen.phase = "done" =>
          /\ ~gen.raised
          /\ \A i \in 1..Len(gen.out) :
                Len(GenOut(i).nodes) <= Max2(CeilingOfCall, SourceNodeCount)
    /\ mode_graph # 0 =>
          /\ ModeNodeCount <= NodeCeiling
          /\ \A i \in 1..Len(ensemble) :
                Len(Val(heap, ensemble[i]).nodes) <= NodeCeiling

\* generate_variations has returned several diagrams for a source of 15 nodes
C25_Witness ==
    /\ GenReturned
    /\ gen.fn = "generate_variations"
    /\ SourceNodeCount = NodeCeiling
    /\ Len(gen.out) > 1
    /\ \A i \in 1..Len(gen.out) : Len(GenOut(i).nodes) = NodeCeiling

(***************************************************************************)
(* Properties of the node identifiers of the returned diagrams.            *)
(***************************************************************************)
\* pairwise distinct node ids, one label per node, every label under its id
NodeIdentity(d) ==
    /\ Cardinality(Range(d.nodes)) = Len(d.nodes)
    /\ DOMAIN d.labels = Range(d.nodes)
    /\ \A n \in DOMAIN d.labels : d.labels[n].node_id = n

\* every edge joins two nodes of the diagram
EdgesWithinNodes(d) ==
    \A i \in 1..Len(d.edges) :
        d.edges[i][1] \in Range(d.nodes) /\ d.edges[i][2] \in Range(d.nodes)

\* C26: when the source diagram has pairwise distinct node ids, a label
\* key set equal to its node set and every label stored under its own
\* node_id, every diagram returned by generate_variations and by
\* generate_variations_improved has the same three properties (an added
\* node has a fresh id and a matching label, a removed node loses its
\* label) and, when the source's edges join nodes of the source, the
\* returned diagram's edges join its own nodes (a removed node loses its
\* incident edges); the mode diagram and every ensemble member of an
\* engine have the three properties in every state.
C26_NodeIdentityPreserved ==
    /\ (GenReturned /\ NodeIdentity(gen.before)) =>
          \A i \in 1..Len(gen.out) :
             /\ NodeIdentity(GenOut(i))
             /\ EdgesWithinNodes(gen.before) => EdgesWithinNodes(GenOut(i))
    /\ mode_graph # 0 =>
          /\ NodeIdentity(Val(heap, mode_graph))
          /\ \A i \in 1..Len(ensemble) : NodeIdentity(Val(heap, ensemble[i]))

\* generate_variations_improved has returned, for a source with the three
\* properties and an edge, a diagram with a node more and one with a node less
C26_Witness ==
    /\ GenReturned
    /\ gen.fn = "generate_variations_improved"
    /\ NodeIdentity(gen.before)
    /\ gen.before.edges # <<>>
    /\ \E i \in 1..Len(gen.out) : Len(GenOut(i).nodes) > SourceNodeCount
    /\ \E i \in 1..Len(gen.out) :
          /\ Len(GenOut(i).nodes) < SourceNodeCount
          /\ Len(GenOut(i).edges) < Len(gen.before.edges)

(***************************************************************************)
(* Properties of the state of a schedule.                                  *)
(***************************************************************************)
ScheduleBuilt == call.fn = "AnnealingSchedule"

\* C27: in every state of a schedule reached from construction by step()
\* and reset(), for every schedule kind, current_beta equals
\* get_beta(current_step); and get_beta with an explicit step changes
\* neither current_step nor current_beta.
C27_CurrentBetaConsistent ==
    /\ [](ScheduleBuilt => call.current_beta = get_beta(call, call.current_step))
    /\ [][(ScheduleBuilt /\ call'.returned.op = "get_beta") =>
             /\ call'.current_step = call.current_step
             /\ call'.current_beta = call.current_beta]_vars

\* C28: for total_steps = N >= 1, is_complete() is false until exactly N
\* calls of step() have been made since construction or reset() and true
\* from then on; every step() from the N-th on returns exactly beta_final
\* and progress() is 1 from then on; reset() returns the schedule to
\* current_step = 0 with is_complete() false.
C28_Completion ==
    (ScheduleBuilt /\ call.total_steps >= 1) =>
        /\ is_complete(call) <=> call.calls >= call.total_steps
        /\ call.calls >= call.total_steps => progress(call) = BetaScale
        /\ (call.returned.op = "step" /\ call.calls >= call.total_steps)
              => call.returned.beta = call.beta_final
        /\ call.returned.op = "reset"
              => call.current_step = 0 /\ ~is_complete(call)

\* the step after the last one of a sigmoid schedule of three steps
C28_Witness ==
    /\ ScheduleBuilt
    /\ call.schedule_type = "sigmoid"
    /\ call.total_steps = 3
    /\ call.calls = 4
    /\ call.returned.op = "step"
    /\ call.returned.beta = call.beta_final
    /\ call.beta_final # call.beta_initial
    /\ is_complete(call)
    /\ progress(call) = BetaScale

(***************************************************************************)
(* eigenspace.py: identify_phi_eigenvalues, identify_generations and       *)
(* compute_eigendecomposition.  An eigenvalue                              *)
(* is a number of thousandths refined by steps of 2^-50, the distance      *)
(* between the floats -0.8090169943749471 and -0.809016994374948 that      *)
(* PHI * omega and PHI * omega**2 have as real parts; it is held as        *)
(* thousandths * FineSpan + steps.  The comparisons of distances are those *)
(* of the floats as long as the steps stay below FineSpan.  Indices count  *)
(* from 1.  The cubic residuals of the returned dictionary, which enter    *)
(* neither flag, are left out.                                             *)
(***************************************************************************)
FineSpan == 1000
RoundingGap == 1
MaxEigen == 3

\* float(lambda_3.real)
HalfPhiLow == -809 * FineSpan

\* the three real parts with the second and third well apart
ExpectedRealApart == <<1618 * FineSpan, HalfPhiLow + 5, HalfPhiLow>>

\* expected_real = [float(lambda_1.real), float(lambda_2.real), float(lambda_3.real)]
expected_real == <<1618 * FineSpan, HalfPhiLow + RoundingGap, HalfPhiLow>>

\* phi_powers + phi_multiples, in thousandths
PhiTargets ==
    {382, 618, 1000, 1618, 2618, 4236} \cup {1618, 3236, 4854, 6472, 8090}
        \cup {618, 1236, 1854}

\* abs(lam - target) / (target + 1e-10) < tolerance, tolerance = 0.1
PhiRelated(lam) ==
    \E target \in PhiTargets : 10 * Abs(lam - target * FineSpan) < target * FineSpan

RECURSIVE IndicesFrom(_, _)
IndicesFrom(eigenvalues, i) ==
    IF i > Len(eigenvalues) THEN <<>>
    ELSE (IF PhiRelated(eigenvalues[i]) THEN <<i>> ELSE <<>>)
             \o IndicesFrom(eigenvalues, i + 1)

identify_phi_eigenvalues(eigenvalues) == IndicesFrom(eigenvalues, 1)

\* errors = [abs(lam - expected) for lam in eigenvalues]; int(np.argmin(errors))
BestIdx(eigenvalues, expected) ==
    CHOOSE i \in 1..Len(eigenvalues) :
        /\ \A j \in 1..Len(eigenvalues) :
              Abs(eigenvalues[i] - expected) <= Abs(eigenvalues[j] - expected)
        /\ \A j \in 1..(i - 1) :
              Abs(eigenvalues[i] - expected) < Abs(eigenvalues[j] - expected)

\* the list generations: one entry per expected value unless there is no eigenvalue
Generations(eigenvalues) ==
    IF Len(eigenvalues) = 0 THEN <<>>
    ELSE [i \in 1..3 |->
            [generation |-> i,
             expected_eigenvalue |-> expected_real[i],
             actual_eigenvalue |-> eigenvalues[BestIdx(eigenvalues, expected_real[i])],
             eigenvalue_index |-> BestIdx(eigenvalues, expected_real[i]),
             error |-> Abs(eigenvalues[BestIdx(eigenvalues, expected_real[i])]
                             - expected_real[i])]]

\* len(set(g['eigenvalue_index'] for g in generations)) >= 3
HasThreeGenerations(generations) ==
    Cardinality({generations[i].eigenvalue_index : i \in 1..Len(generations)}) >= 3

identify_generations(eigenvalues, phi_indices) ==
    [op |-> "identify_generations",
     generations |-> Generations(eigenvalues),
     has_three_generations |-> HasThreeGenerations(Generations(eigenvalues)),
     num_phi_eigenvalues |-> Len(phi_indices),
     theory_compliant |-> HasThreeGenerations(Generations(eigenvalues))
                              /\ Len(phi_indices) >= 1]

\* eigenvalues[np.argsort(eigenvalues)[::-1]] of the ascending result of eigh
Descending(eigenvalues) ==
    [i \in 1..Len(eigenvalues) |-> eigenvalues[Len(eigenvalues) + 1 - i]]

\* compute_eigendecomposition, from the eigenvalues that np.linalg.eigh returned
generation_structure(eigh) ==
    identify_generations(Descending(eigh), identify_phi_eigenvalues(Descending(eigh)))

Ascending(eigenvalues) ==
    \A i \in 1..(Len(eigenvalues) - 1) : eigenvalues[i] <= eigenvalues[i + 1]

EigenValues ==
    {HalfPhiLow + f : f \in -2..3} \cup {1618 * FineSpan, 1000 * FineSpan}

EigenInputs == UNION {[1..n -> EigenValues] : n \in 0..MaxEigen}

NoGenerations ==
    [op |-> "none", generations |-> <<>>, has_three_generations |-> FALSE,
     num_phi_eigenvalues |-> 0, theory_compliant |-> FALSE]

\* a caller holds a list of eigenvalues
InitEigen ==
    /\ EngineAbsent
    /\ heap = <<>>
    /\ gen = GenIdle
    /\ coh = CohIdle
    /\ \E e \in EigenInputs :
          call = [fn |-> "eigenspace", eigenvalues |-> e, returned |-> NoGenerations]

\* identify_generations(eigenvalues, phi_indices) with the indices that
\* identify_phi_eigenvalues finds, or with none
IdentifyGenerations ==
    /\ call.fn = "eigenspace"
    /\ \E phi_indices \in {identify_phi_eigenvalues(call.eigenvalues), <<>>} :
          call' = [call EXCEPT !.returned =
                       identify_generations(call.eigenvalues, phi_indices)]
    /\ UNCHANGED <<heap, engine_vars, result, gen, coh>>

\* compute_eigendecomposition(C_matrix)['generation_structure'] for a symmetric
\* matrix with the eigenvalues held; get_generation_summary returns the
\* theory_compliant of this dictionary unchanged
ComputeEigendecomposition ==
    /\ call.fn = "eigenspace"
    /\ Ascending(call.eigenvalues)
    /\ call' = [call EXCEPT !.returned =
                    [generation_structure(call.eigenvalues) EXCEPT
                        !.op = "compute_eigendecomposition"]]
    /\ UNCHANGED <<heap, engine_vars, result, gen, coh>>

NextEigen == IdentifyGenerations \/ ComputeEigendecomposition

SpecEigen == InitEigen /\ [][NextEigen]_vars

(***************************************************************************)
(* Properties of the generation matching.                                  *)
(***************************************************************************)
GenerationsReturned ==
    call.fn = "eigenspace" /\ call.returned.op # "none"

DistanceToLow(i) == Abs(call.eigenvalues[i] - HalfPhiLow)

\* no two eigenvalues are equally near to -PHI/2 within twice the rounding
\* difference of the two computed real parts
WellSeparated ==
    \A j, k \in 1..Len(call.eigenvalues) :
        j # k => Abs(DistanceToLow(j) - DistanceToLow(k)) > 2 * RoundingGap

MaxResets == 1
MaxServerSteps == 2

Stamp(e, k) == [engine |-> e, step |-> k]

\* the keys in the order of assignment in evolution_thread
StateKeys ==
    <<"clifford_components", "num_nodes", "num_edges", "free_energy",
      "mode_probability", "time", "convergence">>

\* the keys in the order of assignment in reset
ResetKeys == <<"clifford_components", "num_nodes", "num_edges", "time">>

NoResponse == [op |-> "none"]

\* engine = ZXEvolutionEngine(ensemble_size=20); current_state = {...}
InitServer ==
    /\ EngineAbsent
    /\ heap = <<>>
    /\ gen = GenIdle
    /\ coh = CohIdle
    /\ call = [fn |-> "server",
               engine |-> 1,
               steps |-> [e \in 1..(MaxResets + 1) |-> 0],
               current_state |-> [k \in Range(StateKeys) |-> Stamp(1, 0)],
               pc |-> "evolve_step", state |-> Stamp(1, 0), full_state |-> Stamp(1, 0),
               key |-> 1,
               reset_pc |-> "idle", reset_key |-> 1, reset_returned |-> 1,
               returned |-> NoResponse]

ServerRuns == call.fn = "server"

\* state = engine.evolve_step(dt); clifford = zx_to_clifford(state['mode_graph'])
ThreadEvolveStep ==
    /\ ServerRuns
    /\ call.pc = "evolve_step"
    /\ call.steps[call.engine] < MaxServerSteps
    /\ call' = [call EXCEPT !.steps[call.engine] = @ + 1,
                            !.state = Stamp(call.engine, call.steps[call.engine] + 1),
                            !.pc = "get_state"]
    /\ UNCHANGED <<heap, engine_vars, result, gen, coh>>

\* full_state = engine.get_state()
ThreadGetState ==
    /\ ServerRuns
    /\ call.pc = "get_state"
    /\ call' = [call EXCEPT !.full_state = Stamp(call.engine, call.steps[call.engine]),
                            !.pc = "assign", !.key = 1]
    /\ UNCHANGED <<heap, engine_vars, result, gen, coh>>

\* current_state[key] = ... ; after the last key: step_count += 1; time.sleep(dt)
ThreadAssign ==
    /\ ServerRuns
    /\ call.pc = "assign"
    /\ call' = [call EXCEPT
                    !.current_state[StateKeys[call.key]] =
                        IF call.key = 1 THEN call.state ELSE call.full_state,
                    !.key = IF call.key = Len(StateKeys) THEN 1 ELSE call.key + 1,
                    !.pc = IF call.key = Len(StateKeys) THEN "evolve_step" ELSE "assign"]
    /\ UNCHANGED <<heap, engine_vars, result, gen, coh>>

\* GET /state: return jsonify(current_state)
ServeState ==
    /\ ServerRuns
    /\ call' = [call EXCEPT !.returned =
                    [op |-> "state", body |-> call.current_state,
                     reset_returned |-> call.reset_returned]]
    /\ UNCHANGED <<heap, engine_vars, result, gen, coh>>

\* POST /reset: engine = ZXEvolutionEngine(ensemble_size=20)
ResetRebind ==
    /\ ServerRuns
    /\ call.reset_pc = "idle"
    /\ call.engine <= MaxResets
    /\ call' = [call EXCEPT !.engine = @ + 1, !.reset_pc = "assign", !.reset_key = 1]
    /\ UNCHANGED <<heap, engine_vars, result, gen, coh>>

\* POST /reset: clifford = zx_to_clifford(engine.mode_graph) and its
\* assignment, then the three literals of a fresh engine
ResetAssign ==
    /\ ServerRuns
    /\ call.reset_pc = "assign"
    /\ call' = [call EXCEPT
                    !.current_state[ResetKeys[call.reset_key]] =
                        IF call.reset_key = 1
                        THEN Stamp(call.engine, call.steps[call.engine])
                        ELSE Stamp(call.engine, 0),
                    !.reset_key = IF call.reset_key = Len(ResetKeys) THEN 1
                                  ELSE call.reset_key + 1,
                    !.reset_pc = IF call.reset_key = Len(ResetKeys) THEN "return"
                                 ELSE "assign"]
    /\ UNCHANGED <<heap, engine_vars, result, gen, coh>>

\* POST /reset: return jsonify({'status': 'reset', ...})
ResetReturn ==
    /\ ServerRuns
    /\ call.reset_pc = "return"
    /\ call' = [call EXCEPT !.reset_pc = "idle", !.reset_returned = call.engine]
    /\ UNCHANGED <<heap, engine_vars, result, gen, coh>>

NextServer ==
    \/ ThreadEvolveStep
    \/ ThreadGetState
    \/ ThreadAssign
    \/ ServeState
    \/ ResetRebind
    \/ ResetAssign
    \/ ResetReturn

SpecServer == InitServer /\ [][NextServer]_vars

(***************************************************************************)
(* Properties of the responses of the server.                              *)
(***************************************************************************)
StateServed == ServerRuns /\ call.returned.op = "state"

\* two values from the same completed step of the same engine instance; the
\* values of an engine that has completed no step are those of every
\* fresh engine
SameSnapshot(a, b) == a = b \/ (a.step = 0 /\ b.step = 0)

\* a value that an engine computed in a step and that was replaced before
\* the reset numbered r returned
FromReplacedEngine(v, r) == v.engine < r /\ v.step > 0

\* C30: under every interleaving of the evolution thread, GET /state and
\* POST /reset, every /state response has all its fields from the same
\* completed step of the same engine instance, and once /reset has
\* returned no later response carries a value computed from the engine
\* that was replaced.
C30_ConsistentSnapshot ==
    StateServed =>
        /\ \A k \in Range(StateKeys) :
              SameSnapshot(call.returned.body[k], call.returned.body["time"])
        /\ \A k \in Range(StateKeys) :
              ~FromReplacedEngine(call.returned.body[k], call.returned.reset_returned)

====
